---- MODULE Spec2Model ----
(***************************************************************************)
(* A model of GPUODEBenchmarks' Python harness:                            *)
(*   - model_definitions.py      the model catalog and the parameter sweep *)
(*   - bench_cubie.py, bench_diffrax.py, bench_torchdiffeq.py              *)
(*                               the three benchmark entry points          *)
(*   - compare_numerical_results.py   the pairwise snapshot comparison     *)
(*                                                                         *)
(* Numbers.  Python floats are modelled as fixed-point integers: model     *)
(* parameters in thousandths (FloatScale), clock readings in microseconds, *)
(* snapshot elements in millionths.  The IEEE values inf, -inf and nan are *)
(* the strings "inf", "ninf" and "nan".                                    *)
(*                                                                         *)
(* Strings.  A model name is a sequence of one-character strings, so that  *)
(* str.lower() is modelled character by character.                         *)
(***************************************************************************)
EXTENDS Integers, Sequences, FiniteSets

VARIABLES
    \* ---- the catalog / sweep functions applied to drawn inputs
    cName,          \* a model name given to the catalog functions
    cName2,         \* a second name, to compare two lookups
    cCount,         \* n_trajectories given to get_parameter_list
    cParams,        \* get_model_params(cName)
    cParams2,       \* get_model_params(cName2)
    cCubie,         \* get_cubie_system(cName)
    cJax,           \* get_jax_model_class(cName)
    cTorch,         \* get_pytorch_model_class(cName)
    cSweep,         \* get_parameter_list(cName, cCount)
    \* ---- the translated right-hand sides applied to drawn inputs
    rName,          \* the model name given to the three translators
    rY,             \* a state, in the order of initial_conditions
    rP,             \* a value of the swept parameter
    rCubie,         \* the derivative the cubie system string gives
    rJax,           \* the derivative the JAX class gives
    rTorch,         \* the derivative the PyTorch class gives
    \* ---- the files the benchmark entry points write
    fsLogs,         \* timing logs: file name -> lines <<count, elapsed_ms>>
    fsSnaps,        \* snapshot files: file name -> content, or NoFile
    \* ---- one invocation of an entry point (a Python process)
    runs,           \* invocations started so far
    status,         \* "idle", "running", "done" or "failed"
    entry,          \* which script runs: "cubie", "jax" or "pytorch"
    pc,             \* the statement of the script to execute next
    numberOfParameters,     \* int(sys.argv[1])
    model_name,     \* sys.argv[2]
    model_params,   \* get_model_params(model_name)
    parameterList,  \* get_parameter_list(model_name, numberOfParameters)
    res,            \* the durations timeit.repeat returned last
    best_time,      \* min(res) * 1000
    err,            \* the exception that ended the process, or NoError
    calls,          \* history: the backend solves started, in order
    backendOps,     \* history: the other backend/device operations started
    wrote,          \* history: the files this invocation wrote
    inProgress,     \* the backend solve calls entered and not yet returned
    \* ---- compare_arrays applied to drawn inputs
    inA, inB,       \* the two arrays
    inRtol, inAtol, \* the tolerances
    stats,          \* compare_arrays(inA, inB)
    statsSwap,      \* compare_arrays(inB, inA)
    statsSelf,      \* compare_arrays(inA, inA)
    listing,        \* the worst-mismatch lines compare_arrays(inA, inB) printed
    \* ---- one run of compare_numerical_results.py
    numericalDir,   \* ./data/numerical: package -> array, or NoFile
    md_file,        \* ./pairwise_comparisons.md, or NoFile
    mainPc,         \* where main() is
    data,           \* the loaded arrays by package
    names,          \* sorted(data.keys())
    pairs,          \* list(combinations(names, 2))
    pairIdx,        \* the pair the loop is at
    stats_map,      \* (name1, name2) -> statistics or None
    compareCalls,   \* history: the (name1, name2) of every compare_arrays call
    exit_code       \* the process's exit status, -1 while it runs

rhsVars == <<rName, rY, rP, rCubie, rJax, rTorch>>

catVars == <<cName, cName2, cCount, cParams, cParams2, cCubie, cJax, cTorch, cSweep,
             rhsVars>>

fsVars == <<fsLogs, fsSnaps>>

procVars == <<runs, status, entry, pc, numberOfParameters, model_name, model_params,
              parameterList, res, best_time, err, calls, backendOps, wrote, inProgress>>

benchVars == <<fsVars, procVars>>

cmpVars == <<inA, inB, inRtol, inAtol, stats, statsSwap, statsSelf, listing>>

mainVars == <<numericalDir, md_file, mainPc, data, names, pairs, pairIdx, stats_map,
              compareCalls, exit_code>>

vars == <<catVars, benchVars, cmpVars, mainVars>>

-----------------------------------------------------------------------------
(* Generic helpers *)

\* A result not computed yet.
Pending == [exc |-> "pending", value |-> <<>>]

\* A Python call either returns a value or raises.
Ok(v) == [exc |-> "none", value |-> v]
Raise(e) == [exc |-> e, value |-> <<>>]

Abs(x) == IF x < 0 THEN -x ELSE x

\* Python floats of the model definitions, in thousandths.
FloatScale == 1000

-----------------------------------------------------------------------------
(* str.lower() on the letters a model name can hold *)

UpperLetters == <<"A","B","C","D","E","F","G","H","I","J","K","L","M",
                  "N","O","P","Q","R","S","T","U","V","W","X","Y","Z">>
LowerLetters == <<"a","b","c","d","e","f","g","h","i","j","k","l","m",
                  "n","o","p","q","r","s","t","u","v","w","x","y","z">>

LowerChar(c) ==
    IF \E i \in 1..Len(UpperLetters) : UpperLetters[i] = c
    THEN LowerLetters[CHOOSE i \in 1..Len(UpperLetters) : UpperLetters[i] = c]
    ELSE c

\* model_name.lower()
Lower(s) == [i \in 1..Len(s) |-> LowerChar(s[i])]

KeyLorenz == <<"l","o","r","e","n","z">>
KeyVanDerPol == <<"v","a","n","d","e","r","p","o","l">>

-----------------------------------------------------------------------------
(* model_definitions.py *)

(* The values the right-hand sides compute with, as exact quotients         *)
(* num/den in lowest terms with den > 0: 8.0/3.0 has no decimal form.       *)
RECURSIVE Gcd(_, _)
Gcd(a, b) == IF b = 0 THEN Abs(a) ELSE Gcd(b, a % b)

Q(n, dd) ==
    LET g == Gcd(Abs(n), Abs(dd))
        sgn == IF dd < 0 THEN -1 ELSE 1 IN
    [num |-> sgn * (n \div g), den |-> sgn * (dd \div g)]

QInt(n) == [num |-> n, den |-> 1]

QSub(a, b) == Q(a.num * b.den - b.num * a.den, a.den * b.den)

QMul(a, b) == Q(a.num * b.num, a.den * b.den)

\* get_lorenz_params: the constants as quotients, the other floats in
\* thousandths.
get_lorenz_params ==
    [name |-> "Lorenz",
     dimension |-> 3,
     initial_conditions |-> << <<"x", 1000>>, <<"y", 0>>, <<"z", 0>> >>,
     constants |-> << <<"sigma", Q(10, 1)>>, <<"beta", Q(8, 3)>> >>,
     parameter_name |-> "rho",
     parameter_default |-> 21000,
     parameter_range |-> <<0, 21000>>,
     tspan |-> <<0, 1000>>]

\* get_vanderpol_params: tspan ends at 2*pi.
get_vanderpol_params ==
    [name |-> "VanDerPol",
     dimension |-> 2,
     initial_conditions |-> << <<"x", 2000>>, <<"y", 0>> >>,
     constants |-> << >>,
     parameter_name |-> "mu",
     parameter_default |-> 1000,
     parameter_range |-> <<100, 5000>>,
     tspan |-> <<0, 6283>>]

\* get_model_params comparing the name as given, without lower().
get_model_params_nolower(name) ==
    IF name = KeyLorenz THEN Ok(get_lorenz_params)
    ELSE IF name = KeyVanDerPol THEN Ok(get_vanderpol_params)
    ELSE Raise("ValueError: Unknown model")

get_model_params(name) ==
    LET model_model_name_lower == Lower(name) IN
    IF model_model_name_lower = KeyLorenz THEN Ok(get_lorenz_params)
    ELSE IF model_model_name_lower = KeyVanDerPol THEN Ok(get_vanderpol_params)
    ELSE Raise("ValueError: Unknown model")

(* numpy.linspace(start, stop, num) with endpoint=True.  The array is held  *)
(* as the triple that determines it; ArrayAt gives its elements.  Element i *)
(* (0-based) is start + i*(stop-start)/(num-1) at the grid's precision, the *)
(* last element is set to stop when num > 1, and a single sample is start.  *)
np_linspace(start, stop, num) ==
    IF num < 0 THEN Raise("ValueError: Number of samples must be non-negative")
    ELSE Ok([start |-> start, stop |-> stop, num |-> num])

ArrayLen(a) == a.num

\* numpy.linspace with endpoint=False: the divisor is num and stop is left out.
ArrayAt_noendpoint(a, i) ==
    LET div == a.num
        delta == a.stop - a.start IN
    IF div > 0 THEN a.start + ((i * delta) \div div)
    ELSE a.start

ArrayAt(a, i) ==
    LET div == a.num - 1
        delta == a.stop - a.start IN
    IF a.num > 1 /\ i = a.num - 1 THEN a.stop
    ELSE IF div > 0 THEN a.start + ((i * delta) \div div)
    ELSE a.start

\* The array's values, first to last.
ArrayValues(a) == [k \in 1..a.num |-> ArrayAt(a, k - 1)]

get_parameter_list(name, n_trajectories) ==
    LET params == get_model_params(name) IN
    IF params.exc # "none" THEN params
    ELSE np_linspace(params.value.parameter_range[1],
                     params.value.parameter_range[2], n_trajectories)

\* The three translators branch on the lowered name as get_model_params does.
get_cubie_system(name) ==
    LET model_model_name_lower == Lower(name) IN
    IF model_model_name_lower = KeyLorenz
    THEN Ok([system |-> "lorenz",
             initial_conditions |-> get_lorenz_params.initial_conditions,
             parameter_name |-> get_lorenz_params.parameter_name,
             constants |-> get_lorenz_params.constants])
    ELSE IF model_model_name_lower = KeyVanDerPol
    THEN Ok([system |-> "vanderpol",
             initial_conditions |-> get_vanderpol_params.initial_conditions,
             parameter_name |-> get_vanderpol_params.parameter_name,
             constants |-> get_vanderpol_params.constants])
    ELSE Raise("ValueError: Unknown model")

get_jax_model_class(name) ==
    LET model_model_name_lower == Lower(name) IN
    IF model_model_name_lower = KeyLorenz THEN Ok("Lorenz")
    ELSE IF model_model_name_lower = KeyVanDerPol THEN Ok("VanDerPol")
    ELSE Raise("ValueError: Unknown model")

get_pytorch_model_class(name) ==
    LET model_model_name_lower == Lower(name) IN
    IF model_model_name_lower = KeyLorenz THEN Ok("LorenzODE")
    ELSE IF model_model_name_lower = KeyVanDerPol THEN Ok("VanDerPolODE")
    ELSE Raise("ValueError: Unknown model")

-----------------------------------------------------------------------------
(* The right-hand sides the three translators encode.  A state is the       *)
(* sequence of the state variables in the order of initial_conditions, the  *)
(* order list(initial_conditions.values()) gives the backends.              *)

\* dict[key] for a dict held as a sequence of <<key, value>> pairs
Lookup(dict, key) ==
    dict[CHOOSE i \in 1..Len(dict) : dict[i][1] = key][2]

\* The position of a key in the dict's order.
KeyIndex(dict, key) == CHOOSE i \in 1..Len(dict) : dict[i][1] = key

(* The system string of get_cubie_system, evaluated with the states named   *)
(* by initial_conditions, the parameter named parameter_name and the        *)
(* constants of the returned tuple; d<name> is the derivative of <name>.    *)
cubie_dxdt(sys, parameter, state) ==
    LET V(key) == state[KeyIndex(sys.initial_conditions, key)]
        K(key) == Lookup(sys.constants, key)
        dlorenz(key) ==
            IF key = "x" THEN QMul(K("sigma"), QSub(V("y"), V("x")))
            ELSE IF key = "y"
            THEN QSub(QMul(V("x"), QSub(parameter, V("z"))), V("y"))
            ELSE QSub(QMul(V("x"), V("y")), QMul(K("beta"), V("z")))
        dvanderpol(key) ==
            IF key = "x" THEN V("y")
            ELSE QSub(QMul(QMul(parameter,
                                QSub(QInt(1), QMul(V("x"), V("x")))),
                           V("y")),
                      V("x")) IN
    [i \in 1..Len(sys.initial_conditions) |->
        IF sys.system = "lorenz" THEN dlorenz(sys.initial_conditions[i][1])
        ELSE dvanderpol(sys.initial_conditions[i][1])]

\* Lorenz.__call__ with the x*z term added instead of subtracted.
Lorenz_call_plus(rho, y) ==
    << QMul(QInt(10), QSub(y[2], y[1])),
       QSub(QSub(QMul(rho, y[1]), y[2]), QMul(QInt(-1), QMul(y[1], y[3]))),
       QSub(QMul(y[1], y[2]), QMul(Q(8, 3), y[3])) >>

\* class Lorenz(eqx.Module).__call__; y[1] here is y[0] there.
Lorenz_call(rho, y) ==
    << QMul(QInt(10), QSub(y[2], y[1])),
       QSub(QSub(QMul(rho, y[1]), y[2]), QMul(y[1], y[3])),
       QSub(QMul(y[1], y[2]), QMul(Q(8, 3), y[3])) >>

\* class VanDerPol(eqx.Module).__call__
VanDerPol_call(mu, y) ==
    << y[2],
       QSub(QMul(QMul(mu, QSub(QInt(1), QMul(y[1], y[1]))), y[2]), y[1]) >>

\* ModelClass(**{param_name: p})(t, y, args) for the class the translator gave
JaxApply(cls, p, y) ==
    IF cls = "Lorenz" THEN Lorenz_call(p, y) ELSE VanDerPol_call(p, y)

\* class LorenzODE(torch.nn.Module): __init__ and forward
LorenzODE_forward(rho, u) ==
    LET sigma == Q(10, 1)
        beta == Q(8, 3)
        x == u[1]
        y == u[2]
        z == u[3] IN
    << QMul(sigma, QSub(y, x)),
       QSub(QMul(x, QSub(rho, z)), y),
       QSub(QMul(x, y), QMul(beta, z)) >>

\* class VanDerPolODE(torch.nn.Module).forward
VanDerPolODE_forward(mu, u) ==
    LET x == u[1]
        y == u[2] IN
    << y,
       QSub(QMul(QMul(mu, QSub(QInt(1), QMul(x, x))), y), x) >>

\* ModelClass(**{param_name: p}).forward(t, u)
TorchApply(cls, p, u) ==
    IF cls = "LorenzODE" THEN LorenzODE_forward(p, u)
    ELSE VanDerPolODE_forward(p, u)

-----------------------------------------------------------------------------
(* The benchmark entry points: bench_cubie.py, bench_diffrax.py,           *)
(* bench_torchdiffeq.py.  Each script is a straight line of statements;    *)
(* a statement is [op, fn, file, repeat].                                  *)

NoFile == [exists |-> FALSE]

\* The count for which the scripts save the final states.
CalibrationCount == 32768

\* best_time = min(res) * 1000: seconds to milliseconds.
MsPerSecond == 1000

Stmt(op, fn, file, repeat) == [op |-> op, fn |-> fn, file |-> file, repeat |-> repeat]

ScriptCubie ==
    << Stmt("lookup", "get_cubie_system", "", 0),                   \* 33-34
       Stmt("backend", "qb.create_ODE_system", "", 0),              \* 37-44
       Stmt("sweep", "", "", 0),                                    \* 50-55
       Stmt("backend", "qb.Solver", "", 0),                         \* 57-89
       Stmt("solve", "solve_fixed", "", 0),                         \* 118
       Stmt("repeat", "solve_fixed", "", 100),                      \* 121
       Stmt("best", "", "", 0),                                     \* 123-124
       Stmt("log", "", "Cubie_times_unadaptive.txt", 0),            \* 128-130
       Stmt("snapshot", "solve_fixed", "cubie_unadaptive.csv", 0),  \* 133-138
       Stmt("solve", "solve_adaptive", "", 0),                      \* 146
       Stmt("repeat", "solve_adaptive", "", 100),                   \* 149
       Stmt("best", "", "", 0),                                     \* 151-152
       Stmt("log", "", "Cubie_times_adaptive.txt", 0),              \* 155-156
       Stmt("snapshot", "solve_adaptive", "cubie_adaptive.csv", 0) >>   \* 158-163

ScriptJax ==
    << Stmt("backend", "jax.default_backend", "", 0),               \* 32
       Stmt("lookup", "get_jax_model_class", "", 0),                \* 35-39
       Stmt("backend", "jnp.array", "", 0),                         \* 42-43
       Stmt("sweep", "", "", 0),                                    \* 71
       Stmt("repeat", "main", "", 100),                             \* 78
       Stmt("best", "", "", 0),                                     \* 80-81
       Stmt("log", "", "Jax_times_unadaptive.txt", 0),              \* 86-88
       Stmt("snapshot", "main", "jax.csv", 0),                      \* 91-96
       Stmt("repeat", "main_adaptive", "", 100),                    \* 134
       Stmt("best", "", "", 0),                                     \* 139-140
       Stmt("log", "", "Jax_times_adaptive.txt", 0) >>              \* 146-148

ScriptTorch ==
    << Stmt("lookup", "get_pytorch_model_class", "", 0),            \* 35-39
       Stmt("backend", "torch.cuda", "", 0),                        \* 42-46
       Stmt("sweep", "", "", 0),                                    \* 65-66
       Stmt("repeat", "solve", "", 10),                             \* 72
       Stmt("best", "", "", 0),                                     \* 78-79
       Stmt("log", "", "Torch_times_unadaptive.txt", 0),            \* 85-87
       Stmt("snapshot", "solve", "pytorch.csv", 0) >>               \* 90-95

Entries == {"cubie", "jax", "pytorch"}

Script(e) ==
    IF e = "cubie" THEN ScriptCubie
    ELSE IF e = "jax" THEN ScriptJax
    ELSE ScriptTorch

LogFiles == {"Cubie_times_unadaptive.txt", "Cubie_times_adaptive.txt",
             "Jax_times_unadaptive.txt", "Jax_times_adaptive.txt",
             "Torch_times_unadaptive.txt"}

SnapFiles == {"cubie_unadaptive.csv", "cubie_adaptive.csv", "jax.csv", "pytorch.csv"}

\* The translator each script calls before get_model_params.
Translate(fn, name) ==
    IF fn = "get_cubie_system" THEN get_cubie_system(name)
    ELSE IF fn = "get_jax_model_class" THEN get_jax_model_class(name)
    ELSE get_pytorch_model_class(name)

SeqMin(s) == CHOOSE m \in {s[i] : i \in 1..Len(s)} : \A i \in 1..Len(s) : m <= s[i]

RECURSIVE SeqSum(_)
SeqSum(s) == IF s = << >> THEN 0 ELSE s[1] + SeqSum(Tail(s))

\* The mean of the trials instead of their minimum.
BestTime_mean(r) == (SeqSum(r) * MsPerSecond) \div Len(r)

\* best_time = min(res) * 1000
BestTime(r) == SeqMin(r) * MsPerSecond

\* One backend solve of the whole ensemble, as the history keeps it: the
\* function called, whether timeit timed it, how many consecutive calls.
Call(fn, timed, n) == [fn |-> fn, timed |-> timed, n |-> n]

\* An exception as the operator sees it at the top level: the exception
\* raised, unchanged, with no attributes added on the way.
Uncaught(e) == [exc |-> e, backend |-> "", mode |-> "", count |-> 0, cause |-> ""]

NoError == Uncaught("none")

\* What a backend solve raises when it fails (a CUDA or XLA runtime error).
BackendError == "RuntimeError: backend solve failed"

\* The stepping mode of the cell a solve function belongs to.
Mode(fn) == IF fn \in {"solve_adaptive", "main_adaptive"} THEN "adaptive" ELSE "fixed"

\* The solve returns with its work still going on.
AfterReturn_async(running, fn) == running

\* A solve call blocks: once it has returned or raised it is not in progress.
AfterReturn(running, fn) == running \ {fn}

\* The file opened with "w": the new line replaces the content.
OpenAppendWrite_truncate(lines, line) == <<line>>

\* open(file, "a+") and write: the line goes after the lines the file has.
OpenAppendWrite(lines, line) == Append(lines, line)

\* The array written after what the file holds.
np_savetxt_append(old, arr) ==
    [exists |-> TRUE, blocks |-> (IF old.exists THEN old.blocks ELSE << >>) \o <<arr>>]

\* np.savetxt(path, final_states): the file holds this array and nothing else.
np_savetxt(old, arr) == [exists |-> TRUE, blocks |-> <<arr>>]

(* The array a backend's solve returns, held by its layout: the axes in     *)
(* order, the parameter values along "run" in the order they were passed,   *)
(* and the state variables along "state" in the order of the states given.  *)
(* cubie's solution['state'] is (time, state, run); sol.ys of the vmapped   *)
(* diffeqsolve and torch.vmap(solve)(parameters) are (run, time, state).    *)
Solution(fn, sweep, params) ==
    [axes |-> IF fn \in {"solve_fixed", "solve_adaptive"}
              THEN <<"time", "state", "run">>
              ELSE <<"run", "time", "state">>,
     run |-> sweep,
     state |-> [i \in 1..Len(params.initial_conditions) |->
                   params.initial_conditions[i][1]]]

\* arr[-1, :, :] for k = 1 and arr[:, -1, :] for k = 2: axis k is indexed away.
IndexLast(arr, k) ==
    [arr EXCEPT !.axes = SubSeq(@, 1, k - 1) \o SubSeq(@, k + 1, Len(@))]

\* The array left as it is, its axes not reversed.
Transpose_none(arr) == arr

\* arr.T: the axes in reverse order.
Transpose(arr) ==
    [arr EXCEPT !.axes = [i \in 1..Len(@) |-> @[Len(@) + 1 - i]]]

\* What lies along axis k: the sweep for "run", the variables for "state".
AxisLabels(arr, k) == IF arr.axes[k] = "run" THEN arr.run ELSE arr.state

\* The extent of axis k.
AxisSize(arr, k) ==
    IF arr.axes[k] = "run" THEN ArrayLen(arr.run) ELSE Len(arr.state)

(* final_states of a snapshot block: cubie takes solution['state'][-1,:,:].T *)
(* and the others sol.ys[:, -1, :] / traj[:, -1, :].                        *)
FinalStates(fn, sweep, params) ==
    LET sol == Solution(fn, sweep, params)
        final_states == IF fn \in {"solve_fixed", "solve_adaptive"}
                        THEN Transpose(IndexLast(sol, 1))
                        ELSE IndexLast(sol, 2) IN
    [exists |-> TRUE, fn |-> fn, model |-> params.name,
     axes |-> final_states.axes,
     rows |-> AxisLabels(final_states, 1),
     cols |-> AxisSize(final_states, 2),
     columns |-> AxisLabels(final_states, 2)]

-----------------------------------------------------------------------------
(* Inputs of the benchmark runs *)

\* Invocations in one behaviour.
MaxRuns == 2

BenchCounts == {-1, 0, 4, CalibrationCount}

BenchNames ==
    { <<"L","o","r","e","n","z">>,
      <<"r","o","s","s","l","e","r">> }

\* Per-trial durations in microseconds; trial i takes pattern[(i-1) mod 4 + 1].
LatencyPatterns ==
    { <<5000, 1000, 9000, 2000>>,
      <<9000, 5000, 3000, 2000>> }

Durations(pattern, repeat) ==
    [i \in 1..repeat |-> pattern[((i - 1) % Len(pattern)) + 1]]

\* The trial at which a failing timeit.repeat fails: the first or the last.
FailTrials(repeat) == {1, repeat}

-----------------------------------------------------------------------------
(* compare_numerical_results.py: floats and arrays                         *)
(*                                                                         *)
(* A float is [k, num, den]: k = "fin" for the rational num/den (den > 0), *)
(* in millionths, or "inf", "ninf", "nan".  An array is [shape, flat]: its *)
(* shape tuple and its elements in row-major order.                        *)

Fin(n) == [k |-> "fin", num |-> n, den |-> 1]
Rat(n, m) == [k |-> "fin", num |-> n, den |-> m]
PosInf == [k |-> "inf", num |-> 0, den |-> 1]
NegInf == [k |-> "ninf", num |-> 0, den |-> 1]
NaN == [k |-> "nan", num |-> 0, den |-> 1]

(* A quotient by 1e-20: Big(n, m) is (n/m) / 1e-20, larger than every "fin" *)
(* value an array or a statistic holds and smaller than inf; low is a "fin" *)
(* part added to it, which a mean of large and ordinary values has.         *)
Big(n, m) == [k |-> "big", num |-> n, den |-> m, low |-> Rat(0, 1)]

IsFinite(x) == x.k = "fin"

\* x - y in IEEE arithmetic
FSub(x, y) ==
    IF x.k = "nan" \/ y.k = "nan" THEN NaN
    ELSE IF x.k = "fin" /\ y.k = "fin" THEN Rat(x.num * y.den - y.num * x.den, x.den * y.den)
    ELSE IF x.k = y.k THEN NaN
    ELSE IF x.k = "inf" \/ y.k = "ninf" THEN PosInf
    ELSE NegInf

\* np.abs
FAbs(x) ==
    IF x.k = "fin" THEN Rat(Abs(x.num), x.den)
    ELSE IF x.k = "nan" THEN NaN
    ELSE PosInf

\* x == y in IEEE arithmetic: nan equals nothing.
FEq(x, y) ==
    IF x.k = "nan" \/ y.k = "nan" THEN FALSE
    ELSE IF x.k = "fin" /\ y.k = "fin" THEN x.num * y.den = y.num * x.den
    ELSE x.k = y.k

\* x <= y for floats that are not nan
FLeq(x, y) ==
    IF x.k = "ninf" \/ y.k = "inf" THEN TRUE
    ELSE IF x.k = "inf" \/ y.k = "ninf" THEN FALSE
    ELSE IF x.k = "big" /\ y.k = "big"
    THEN \/ x.num * y.den < y.num * x.den
         \/ /\ x.num * y.den = y.num * x.den
            /\ x.low.num * y.low.den <= y.low.num * x.low.den
    ELSE IF x.k = "big" THEN FALSE
    ELSE IF y.k = "big" THEN TRUE
    ELSE x.num * y.den <= y.num * x.den

\* The tolerances: rtol counts 1/RtolDen (the default 1e-4 is 1), atol counts
\* millionths (the default 1e-6 is 1).
RtolDen == 10000
DefaultRtol == 1
DefaultAtol == 1

\* diff without np.abs
ElemDiff_noabs(x, y) == FSub(x, y)

\* diff = np.abs(arr1 - arr2), one element
ElemDiff(x, y) == FAbs(FSub(x, y))

\* The proxy with the second array in the denominator.
RelDiff_second(x, y) ==
    LET d == FSub(x, y) IN
    IF d.k = "nan" \/ y.k # "fin" THEN NaN
    ELSE IF d.k # "fin" THEN PosInf
    ELSE IF d.num = 0 THEN Fin(0)
    ELSE IF y.num = 0 THEN Big(Abs(d.num), d.den)
    ELSE LET n == Abs(d.num) * y.den
             m == d.den * Abs(y.num)
             g == Gcd(n, m) IN
         Rat(n \div g, m \div g)

(* relative_diff = np.abs((arr1 - arr2) / (arr1 + 1e-20)), one element,     *)
(* as a plain quotient in lowest terms.  arr1 + 1e-20 is arr1 for an        *)
(* element of magnitude 1e-4 or more (float64 absorbs the 1e-20) and 1e-20  *)
(* for a zero; the elements of the arrays are zero or at least 0.009999 in  *)
(* magnitude.  An infinite arr1 gives inf/inf or a nan difference, nan; an  *)
(* infinite arr2 alone gives inf.                                           *)
RelDiff(x, y) ==
    LET d == FSub(x, y) IN
    IF d.k = "nan" \/ x.k # "fin" THEN NaN
    ELSE IF d.k # "fin" THEN PosInf
    ELSE IF d.num = 0 THEN Fin(0)
    ELSE IF x.num = 0 THEN Big(Abs(d.num), d.den)
    ELSE LET n == Abs(d.num) * x.den
             m == d.den * Abs(x.num)
             g == Gcd(n, m) IN
         Rat(n \div g, m \div g)

\* The closeness test with < instead of <=.
ElementClose_strict(x, y, rtol, atol) ==
    LET d == ElemDiff(x, y)
        ay == FAbs(y)
        boundKind == IF ay.k = "nan" THEN "nan"
                     ELSE IF ay.k = "fin" THEN "fin"
                     ELSE IF rtol > 0 THEN "inf" ELSE "nan" IN
    IF d.k = "nan" \/ boundKind = "nan" THEN FALSE
    ELSE IF boundKind = "inf" THEN TRUE
    ELSE IF d.k = "inf" THEN FALSE
    ELSE IF d.den = 1 /\ ay.den = 1
    THEN d.num - atol < (rtol * ay.num + RtolDen - 1) \div RtolDen
    ELSE RtolDen * d.num * ay.den < (RtolDen * atol * ay.den + rtol * ay.num) * d.den

\* np.abs(arr1 - arr2) <= (atol + rtol * np.abs(arr2)), one element; between
\* whole numbers of millionths d <= atol + rtol * |y| / RtolDen is taken as
\* d - atol <= floor(rtol * |y| / RtolDen), which is the same and keeps the
\* products small.  The
\* bound is nan when arr2 is nan, or infinite with rtol = 0 (0 * inf), and
\* infinite when arr2 is infinite with rtol > 0; a comparison with nan is False.
ElementClose(x, y, rtol, atol) ==
    LET d == ElemDiff(x, y)
        ay == FAbs(y)
        boundKind == IF ay.k = "nan" THEN "nan"
                     ELSE IF ay.k = "fin" THEN "fin"
                     ELSE IF rtol > 0 THEN "inf" ELSE "nan" IN
    IF d.k = "nan" \/ boundKind = "nan" THEN FALSE
    ELSE IF boundKind = "inf" THEN TRUE
    ELSE IF d.k = "inf" THEN FALSE
    ELSE IF d.den = 1 /\ ay.den = 1
    THEN d.num - atol <= (rtol * ay.num) \div RtolDen
    ELSE RtolDen * d.num * ay.den <= (RtolDen * atol * ay.den + rtol * ay.num) * d.den

\* numpy.isclose(x, y, rtol, atol), equal_nan=False: the tolerance test for
\* two finite values, x == y otherwise.
np_isclose(x, y, rtol, atol) ==
    IF IsFinite(x) /\ IsFinite(y) THEN ElementClose(x, y, rtol, atol)
    ELSE FEq(x, y)

\* numpy.allclose on two arrays of one shape
np_allclose(a, b, rtol, atol) ==
    \A i \in 1..Len(a.flat) : np_isclose(a.flat[i], b.flat[i], rtol, atol)

ArraySize(a) == Len(a.flat)

\* np.max: nan if any element is nan
np_max(s) ==
    IF \E i \in 1..Len(s) : s[i].k = "nan" THEN NaN
    ELSE s[CHOOSE i \in 1..Len(s) : \A j \in 1..Len(s) : FLeq(s[j], s[i])]

RECURSIVE FinSumNum(_, _)
\* The numerator of the sum of finite floats over the denominator d.
FinSumNum(s, d) ==
    IF s = << >> THEN 0 ELSE (s[1].num * d) \div s[1].den + FinSumNum(Tail(s), d)

RECURSIVE DenLcm(_)
\* A common denominator of the elements: the least common multiple.
DenLcm(s) ==
    IF s = << >> THEN 1
    ELSE LET m == DenLcm(Tail(s)) IN (s[1].den \div Gcd(s[1].den, m)) * m

\* np.min: nan if any element is nan
np_min(s) ==
    IF \E i \in 1..Len(s) : s[i].k = "nan" THEN NaN
    ELSE s[CHOOSE i \in 1..Len(s) : \A j \in 1..Len(s) : FLeq(s[i], s[j])]

\* np.mean: the sum over the size; nan and inf propagate; the quotients by
\* 1e-20 and the ordinary values are summed apart.
np_mean(s) ==
    LET IsBig(e) == e.k = "big"
        IsFin(e) == e.k = "fin"
        bigs == SelectSeq(s, IsBig)
        fins == SelectSeq(s, IsFin)
        d == DenLcm(fins)
        db == DenLcm(bigs) IN
    IF \E i \in 1..Len(s) : s[i].k = "nan" THEN NaN
    ELSE IF (\E i \in 1..Len(s) : s[i].k = "inf") /\ (\E i \in 1..Len(s) : s[i].k = "ninf")
    THEN NaN
    ELSE IF \E i \in 1..Len(s) : s[i].k = "inf" THEN PosInf
    ELSE IF \E i \in 1..Len(s) : s[i].k = "ninf" THEN NegInf
    ELSE IF bigs # << >>
    THEN [k |-> "big", num |-> FinSumNum(bigs, db), den |-> db * Len(s),
          low |-> Rat(FinSumNum(fins, d), d * Len(s))]
    ELSE Rat(FinSumNum(s, d), d * Len(s))

(* The square of np.std: the mean of the squared deviations from the mean,  *)
(* for elements that are all "fin"; nan otherwise (inf - inf).              *)
np_var(s) ==
    IF \E i \in 1..Len(s) : s[i].k # "fin" THEN NaN
    ELSE LET m == np_mean(s)
             dev == [i \in 1..Len(s) |->
                        LET x == QSub(s[i], m) IN
                        Rat(x.num * x.num, x.den * x.den)] IN
         np_mean(dev)

\* np.std, held by its square: Sqrt(v) is the non-negative root of v.
Sqrt(v) == [k |-> IF v.k = "fin" THEN "sqrt" ELSE v.k, num |-> v.num, den |-> v.den]

np_std(s) == Sqrt(np_var(s))

\* compare_arrays returned None.
None == [none |-> TRUE]

\* compare_arrays(name1, arr1, name2, arr2, rtol, atol): None when the shapes
\* differ; np.max of an empty array raises; else the statistics.
compare_arrays(arr1, arr2, rtol, atol) ==
    IF arr1.shape # arr2.shape THEN Ok(None)
    ELSE IF ArraySize(arr1) = 0
    THEN Raise("ValueError: zero-size array to reduction operation maximum")
    ELSE
      LET n == ArraySize(arr1)
          diff == [i \in 1..n |-> ElemDiff(arr1.flat[i], arr2.flat[i])]
          relative_diff == [i \in 1..n |-> RelDiff(arr1.flat[i], arr2.flat[i])]
          is_close == np_allclose(arr1, arr2, rtol, atol)
          num_close == Cardinality({i \in 1..n :
                           ElementClose(arr1.flat[i], arr2.flat[i], rtol, atol)})
          total_elements == n IN
      Ok([none |-> FALSE,
          is_close |-> is_close,
          num_close |-> num_close,
          total_elements |-> total_elements,
          percent_close |-> Rat(100 * num_close, total_elements),
          abs_max |-> np_max(diff),
          abs_mean |-> np_mean(diff),
          rel_min |-> np_max(relative_diff),
          rel_std |-> np_mean(relative_diff)])

(* The statistics compare_arrays prints, by the label of the line: the      *)
(* absolute differences under "abs", the relative differences under "rel". *)
printed(arr1, arr2, group, label) ==
    LET n == ArraySize(arr1)
        diff == [i \in 1..n |-> ElemDiff(arr1.flat[i], arr2.flat[i])]
        relative_diff == [i \in 1..n |-> RelDiff(arr1.flat[i], arr2.flat[i])]
        of == IF group = "abs" THEN diff ELSE relative_diff IN
    IF label = "Max" THEN np_max(of)
    ELSE IF label = "Mean" THEN np_mean(of)
    ELSE IF label = "Min" THEN np_min(of)
    ELSE np_std(of)

\* numpy's sort order: a nan comes after every number.
SortLeq(x, y) == y.k = "nan" \/ (x.k # "nan" /\ FLeq(x, y))

\* The mismatches shown.
TopCount == 5

RECURSIVE TopIndices(_, _, _)
\* The k last indices of an ascending argsort of flat, last first.  Every
\* result is there that the sort may give: it leaves equal values in an
\* order of its own.
TopIndices(flat, S, k) ==
    IF k = 0 \/ S = {} THEN {<< >>}
    ELSE LET M == {i \in S : \A j \in S : SortLeq(flat[j], flat[i])} IN
         UNION { {<<m>> \o t : t \in TopIndices(flat, S \ {m}, k - 1)} : m \in M }

\* The five last indices in the order of the sort, smallest first.
worst_indices_noreverse(flat_diff) ==
    { [i \in 1..Len(w) |-> w[Len(w) + 1 - i]] :
         w \in TopIndices(flat_diff, 1..Len(flat_diff), TopCount) }

\* worst_indices = np.argsort(flat_diff)[-5:][::-1], indices counted from 1
worst_indices(flat_diff) == TopIndices(flat_diff, 1..Len(flat_diff), TopCount)

\* np.unravel_index(idx, arr1.shape) for two dimensions, the flat index
\* otherwise; positions count from 0.
Position(idx, shape) ==
    IF Len(shape) = 2
    THEN <<(idx - 1) \div shape[2], (idx - 1) % shape[2]>>
    ELSE <<idx - 1>>

RECURSIVE Normalize7(_, _, _)
\* num/den > 0 as a seven-digit mantissa and a power of ten
Normalize7(num, den, e) ==
    IF num >= 10000000 * den THEN Normalize7(num, den * 10, e + 1)
    ELSE IF num < 1000000 * den THEN Normalize7(num * 10, den, e - 1)
    ELSE LET mant == (2 * num + den) \div (2 * den) IN
         IF mant = 10000000 THEN [mant |-> 1000000, exp |-> e + 1]
         ELSE [mant |-> mant, exp |-> e]

\* f"{x:.6e}": seven significant digits (ties rounded up); x is in millionths.
FormatE6(x) ==
    IF x.k # "fin" THEN [text |-> x.k, mant |-> 0, exp |-> 0]
    ELSE IF x.num = 0 THEN [text |-> "fin", mant |-> 0, exp |-> 0]
    ELSE LET m == Normalize7(Abs(x.num), x.den, 0) IN
         [text |-> IF x.num < 0 THEN "neg" ELSE "fin", mant |-> m.mant, exp |-> m.exp]

\* The lines compare_arrays prints under "Worst mismatches (top 5)": none when
\* it returns before (shapes differ), raises before (np.max of an empty
\* array) or finds the arrays close; else a line per worst index with the
\* position, both values and the difference.
worst_mismatches(arr1, arr2, rtol, atol) ==
    IF arr1.shape # arr2.shape \/ ArraySize(arr1) = 0 THEN {<< >>}
    ELSE IF np_allclose(arr1, arr2, rtol, atol) THEN {<< >>}
    ELSE LET flat_diff == [i \in 1..ArraySize(arr1) |->
                              ElemDiff(arr1.flat[i], arr2.flat[i])] IN
         { [n \in 1..Len(w) |->
               [pos |-> Position(w[n], arr1.shape),
                v1 |-> FormatE6(arr1.flat[w[n]]),
                v2 |-> FormatE6(arr2.flat[w[n]]),
                diff |-> FormatE6(flat_diff[w[n]])]] : w \in worst_indices(flat_diff) }

-----------------------------------------------------------------------------
(* Inputs of the comparison *)

\* Largest number of elements of a drawn array.
MaxElems == 2

\* 0.009999 and 0.010001, whose difference 2e-6 lies between the two bounds
\* atol + rtol * |.| of the default tolerances; and the two non-finite kinds.
ElemValues == {Fin(9999), Fin(10001), PosInf, NaN}

ArrayShapes ==
    {<<n>> : n \in 0..MaxElems}
      \cup {<<r, c>> : r \in 1..MaxElems, c \in 1..MaxElems}

ShapeSize(sh) == IF Len(sh) = 1 THEN sh[1] ELSE sh[1] * sh[2]

\* Two 4 x 3 snapshots, 1.0, 2.0, ... in row-major order, that differ at
\* [2, 1] only: 1.0 in the first and 0.0 in the second.
SnapshotA == [shape |-> <<4, 3>>,
              flat |-> [i \in 1..12 |-> IF i = 8 THEN Fin(1000000) ELSE Fin(i * 1000000)]]

SnapshotB == [shape |-> <<4, 3>>,
              flat |-> [i \in 1..12 |-> IF i = 8 THEN Fin(0) ELSE Fin(i * 1000000)]]

\* Two 2 x 3 snapshots whose six differences are all different.
SnapshotC == [shape |-> <<2, 3>>, flat |-> [i \in 1..6 |-> Fin(i * 1000000)]]

SnapshotD == [shape |-> <<2, 3>>, flat |-> [i \in 1..6 |-> Fin(0)]]

Arrays ==
    UNION { {[shape |-> sh, flat |-> f] : f \in [1..ShapeSize(sh) -> ElemValues]}
            : sh \in {x \in ArrayShapes : ShapeSize(x) <= MaxElems} }

\* rtol and atol pairs: the defaults, and zero tolerances.
Tolerances == {<<DefaultRtol, DefaultAtol>>, <<0, 0>>}

\* The calls made: every two drawn arrays under each pair of tolerances, and
\* the larger snapshots two by two under the default tolerances.
CompareInputs ==
    {<<a, b, t[1], t[2]>> : a \in Arrays, b \in Arrays, t \in Tolerances}
      \cup {<<SnapshotA, SnapshotB, DefaultRtol, DefaultAtol>>,
            <<SnapshotC, SnapshotD, DefaultRtol, DefaultAtol>>,
            <<SnapshotD, SnapshotC, DefaultRtol, DefaultAtol>>}

-----------------------------------------------------------------------------
(* The state each specification leaves alone *)

RhsPinned ==
    /\ rName = << >>
    /\ rY = << >>
    /\ rP = QInt(0)
    /\ rCubie = Pending
    /\ rJax = Pending
    /\ rTorch = Pending

LookupPinned ==
    /\ cName = << >>
    /\ cName2 = << >>
    /\ cCount = 0
    /\ cParams = Pending
    /\ cParams2 = Pending
    /\ cCubie = Pending
    /\ cJax = Pending
    /\ cTorch = Pending
    /\ cSweep = Pending

CatPinned ==
    /\ LookupPinned
    /\ RhsPinned

ProcIdle ==
    /\ status = "idle"
    /\ entry = "none"
    /\ pc = 0
    /\ numberOfParameters = 0
    /\ model_name = << >>
    /\ model_params = Pending
    /\ parameterList = Pending
    /\ res = << >>
    /\ best_time = 0
    /\ err = NoError
    /\ calls = << >>
    /\ backendOps = << >>
    /\ wrote = << >>
    /\ inProgress = {}

BenchPinned ==
    /\ fsLogs = [f \in LogFiles |-> << >>]
    /\ fsSnaps = [f \in SnapFiles |-> NoFile]
    /\ runs = 0
    /\ ProcIdle

-----------------------------------------------------------------------------
(* compare_numerical_results.py: main *)

packages == <<"cubie_adaptive", "cubie_unadaptive", "jax", "pytorch",
              "julia_adaptive", "julia_fixed", "mpgos">>

PackageSet == {packages[i] : i \in 1..Len(packages)}

\* The place of each package name in Python's string order.
StringRank(n) ==
    CASE n = "cubie_adaptive" -> 1
      [] n = "cubie_unadaptive" -> 2
      [] n = "jax" -> 3
      [] n = "julia_adaptive" -> 4
      [] n = "julia_fixed" -> 5
      [] n = "mpgos" -> 6
      [] n = "pytorch" -> 7

\* sorted(keys)
sorted(keys) ==
    [k \in 1..Cardinality(keys) |->
        CHOOSE n \in keys : Cardinality({m \in keys : StringRank(m) < StringRank(n)}) = k - 1]

\* The pairs (i, j), i <= j: combinations with replacement.
combinations2_withself(iterable) ==
    LET n == Len(iterable)
        idx == {q \in (1..n) \X (1..n) : q[1] <= q[2]}
        Before(q) == {r \in idx : r[1] < q[1] \/ (r[1] = q[1] /\ r[2] < q[2])} IN
    [k \in 1..Cardinality(idx) |->
        LET q == CHOOSE q \in idx : Cardinality(Before(q)) = k - 1 IN
        <<iterable[q[1]], iterable[q[2]]>>]

\* list(combinations(names, 2)): the pairs (i, j), i < j, in index order
combinations2(iterable) ==
    LET n == Len(iterable)
        idx == {q \in (1..n) \X (1..n) : q[1] < q[2]}
        Before(q) == {r \in idx : r[1] < q[1] \/ (r[1] = q[1] /\ r[2] < q[2])} IN
    [k \in 1..Cardinality(idx) |->
        LET q == CHOOSE q \in idx : Cardinality(Before(q)) = k - 1 IN
        <<iterable[q[1]], iterable[q[2]]>>]

\* The test with 1 in place of 2.
TooFewDatasets_one(loaded) == Cardinality(DOMAIN loaded) < 1

\* len(data) < 2
TooFewDatasets(loaded) == Cardinality(DOMAIN loaded) < 2

\* dict.get(key): None for a missing key
DictGet(map, key) == IF key \in DOMAIN map THEN map[key] ELSE None

RECURSIVE Normalize(_, _, _)
\* num/den > 0 as a three-digit mantissa and a power of ten
Normalize(num, den, e) ==
    IF num >= 1000 * den THEN Normalize(num, den * 10, e + 1)
    ELSE IF num < 100 * den THEN Normalize(num * 10, den, e - 1)
    ELSE LET mant == (2 * num + den) \div (2 * den) IN
         IF mant = 1000 THEN [mant |-> 100, exp |-> e + 1] ELSE [mant |-> mant, exp |-> e]

\* f"{x:.2e}": three significant digits (ties rounded up); x is in millionths.
FormatE2(x) ==
    IF x.k # "fin" THEN [text |-> x.k, mant |-> 0, exp |-> 0]
    ELSE IF x.num = 0 THEN [text |-> "fin", mant |-> 0, exp |-> 0]
    ELSE LET m == Normalize(Abs(x.num), x.den, 0) IN
         [text |-> IF x.num < 0 THEN "neg" ELSE "fin", mant |-> m.mant, exp |-> m.exp + 2 - 6]

\* f"{p:.1f}": tenths of a percent (ties rounded up)
FormatF1(p) == (20 * p.num + p.den) \div (2 * p.den)

Cell(text, max, mean, pct) == [text |-> text, max |-> max, mean |-> mean, pct |-> pct]

CellDash == Cell("-", FormatE2(Fin(0)), FormatE2(Fin(0)), 0)
CellNA == Cell("N/A", FormatE2(Fin(0)), FormatE2(Fin(0)), 0)

\* The cell looked up under (row, col) only.
TableCell_nokeyswap(map, row_name, col_name) ==
    IF row_name = col_name THEN CellDash
    ELSE LET st == DictGet(map, <<row_name, col_name>>) IN
         IF st.none THEN CellNA
         ELSE Cell("stats", FormatE2(st.abs_max), FormatE2(st.abs_mean),
                   FormatF1(st.percent_close))

\* The cell without the test for the diagonal.
TableCell_nodiag(map, row_name, col_name) ==
    LET key == IF <<row_name, col_name>> \in DOMAIN map
               THEN <<row_name, col_name>> ELSE <<col_name, row_name>>
        st == DictGet(map, key) IN
    IF st.none THEN CellNA
    ELSE Cell("stats", FormatE2(st.abs_max), FormatE2(st.abs_mean),
              FormatF1(st.percent_close))

\* One cell of the pairwise table (lines 162-173)
TableCell(map, row_name, col_name) ==
    IF row_name = col_name THEN CellDash
    ELSE LET key == IF <<row_name, col_name>> \in DOMAIN map
                    THEN <<row_name, col_name>> ELSE <<col_name, row_name>>
             st == DictGet(map, key) IN
         IF st.none THEN CellNA
         ELSE Cell("stats", FormatE2(st.abs_max), FormatE2(st.abs_mean),
                   FormatF1(st.percent_close))

\* pairwise_comparisons.md: the "Packages included" line, the header row of
\* the table, and a row per name: its label and its cells
Report(nm, map) ==
    [exists |-> TRUE,
     names |-> nm,
     header |-> nm,
     labels |-> [i \in 1..Len(nm) |-> nm[i]],
     table |-> [i \in 1..Len(nm) |-> [j \in 1..Len(nm) |-> TableCell(map, nm[i], nm[j])]]]

\* A report left by an earlier run.
OldReport ==
    [exists |-> TRUE, names |-> << >>, header |-> << >>, labels |-> << >>, table |-> << >>]

\* Snapshot files present in one run of the comparison.
MaxFiles == 3

\* The arrays the snapshot files hold: two of one shape, one of another shape
\* and an empty one.
MainArrays ==
    { [shape |-> <<1, 2>>, flat |-> <<Fin(10001), Fin(10001)>>],
      [shape |-> <<1, 2>>, flat |-> <<Fin(9999), Fin(10001)>>],
      [shape |-> <<2, 1>>, flat |-> <<Fin(10001), Fin(10001)>>],
      [shape |-> <<0>>, flat |-> << >>] }

Present(dir) == {p \in PackageSet : dir[p] # NoFile}

-----------------------------------------------------------------------------
(* The state each specification leaves alone, continued *)

CmpPinned ==
    /\ inA = [shape |-> <<0>>, flat |-> << >>]
    /\ inB = [shape |-> <<0>>, flat |-> << >>]
    /\ inRtol = DefaultRtol
    /\ inAtol = DefaultAtol
    /\ stats = Pending
    /\ statsSwap = Pending
    /\ statsSelf = Pending
    /\ listing = << >>

MainPinned ==
    /\ numericalDir = [p \in PackageSet |-> NoFile]
    /\ md_file = NoFile
    /\ mainPc = "start"
    /\ data = << >>
    /\ names = << >>
    /\ pairs = << >>
    /\ pairIdx = 0
    /\ stats_map = << >>
    /\ compareCalls = << >>
    /\ exit_code = -1

-----------------------------------------------------------------------------
(* compare_arrays applied to drawn arrays and tolerances *)

CmpInit ==
    /\ \E inp \in CompareInputs :
          /\ inA = inp[1]
          /\ inB = inp[2]
          /\ inRtol = inp[3]
          /\ inAtol = inp[4]
    /\ stats = Pending
    /\ statsSwap = Pending
    /\ statsSelf = Pending
    /\ listing = << >>
    /\ MainPinned
    /\ CatPinned
    /\ BenchPinned

\* compare_arrays(name1, arr1, name2, arr2, rtol, atol) on the drawn inputs
CompareArrays ==
    /\ stats.exc = "pending"
    /\ stats' = compare_arrays(inA, inB, inRtol, inAtol)
    /\ listing' \in worst_mismatches(inA, inB, inRtol, inAtol)
    /\ UNCHANGED <<inA, inB, inRtol, inAtol, statsSwap, statsSelf>>
    /\ UNCHANGED <<mainVars, catVars, benchVars>>

\* the same call with the arrays swapped
CompareSwapped ==
    /\ stats.exc # "pending"
    /\ statsSwap.exc = "pending"
    /\ statsSwap' = compare_arrays(inB, inA, inRtol, inAtol)
    /\ UNCHANGED <<inA, inB, inRtol, inAtol, stats, statsSelf, listing>>
    /\ UNCHANGED <<mainVars, catVars, benchVars>>

\* an array compared with itself
CompareSelf ==
    /\ statsSwap.exc # "pending"
    /\ statsSelf.exc = "pending"
    /\ statsSelf' = compare_arrays(inA, inA, inRtol, inAtol)
    /\ UNCHANGED <<inA, inB, inRtol, inAtol, stats, statsSwap, listing>>
    /\ UNCHANGED <<mainVars, catVars, benchVars>>

CmpNext ==
    \/ CompareArrays
    \/ CompareSwapped
    \/ CompareSelf

SpecCompare == CmpInit /\ [][CmpNext]_vars

-----------------------------------------------------------------------------
(* main() of compare_numerical_results.py *)

MainInit ==
    /\ numericalDir \in [PackageSet -> MainArrays \cup {NoFile}]
    /\ Cardinality(Present(numericalDir)) <= MaxFiles
    /\ md_file \in {NoFile, OldReport}
    /\ mainPc = "start"
    /\ data = << >>
    /\ names = << >>
    /\ pairs = << >>
    /\ pairIdx = 0
    /\ stats_map = << >>
    /\ compareCalls = << >>
    /\ exit_code = -1
    /\ CmpPinned
    /\ CatPinned
    /\ BenchPinned

\* lines 111-120: load every package's csv that exists
LoadData ==
    /\ mainPc = "start"
    /\ data' = [p \in Present(numericalDir) |-> numericalDir[p]]
    /\ mainPc' = "loaded"
    /\ UNCHANGED <<numericalDir, md_file, names, pairs, pairIdx, stats_map, compareCalls,
                   exit_code>>
    /\ UNCHANGED <<cmpVars, catVars, benchVars>>

\* lines 122-132: fewer than two datasets exit with status 1; else the sorted
\* names and their pairs
CheckAndPair ==
    /\ mainPc = "loaded"
    /\ IF TooFewDatasets(data)
       THEN /\ exit_code' = 1
            /\ mainPc' = "exited"
            /\ UNCHANGED <<names, pairs, pairIdx>>
       ELSE /\ names' = sorted(DOMAIN data)
            /\ pairs' = combinations2(sorted(DOMAIN data))
            /\ pairIdx' = 1
            /\ mainPc' = "comparing"
            /\ UNCHANGED exit_code
    /\ UNCHANGED <<numericalDir, md_file, data, stats_map, compareCalls>>
    /\ UNCHANGED <<cmpVars, catVars, benchVars>>

\* lines 134-136: one iteration of the loop over the pairs; an exception of
\* compare_arrays is not caught
ComparePair ==
    /\ mainPc = "comparing"
    /\ pairIdx <= Len(pairs)
    /\ LET name1 == pairs[pairIdx][1]
           name2 == pairs[pairIdx][2]
           r == compare_arrays(data[name1], data[name2], DefaultRtol, DefaultAtol) IN
       /\ compareCalls' = Append(compareCalls, <<name1, name2>>)
       /\ IF r.exc # "none"
          THEN /\ mainPc' = "crashed"
               /\ exit_code' = 1
               /\ UNCHANGED <<stats_map, pairIdx>>
          ELSE /\ stats_map' = [k \in DOMAIN stats_map \cup {<<name1, name2>>} |->
                                   IF k = <<name1, name2>> THEN r.value ELSE stats_map[k]]
               /\ pairIdx' = pairIdx + 1
               /\ UNCHANGED <<mainPc, exit_code>>
    /\ UNCHANGED <<numericalDir, md_file, data, names, pairs>>
    /\ UNCHANGED <<cmpVars, catVars, benchVars>>

\* lines 138-185: build the table and write pairwise_comparisons.md; a failed
\* write is caught and only reported
WriteReport ==
    /\ mainPc = "comparing"
    /\ pairIdx > Len(pairs)
    /\ \/ md_file' = Report(names, stats_map)
       \/ UNCHANGED md_file
    /\ mainPc' = "exited"
    /\ exit_code' = 0
    /\ UNCHANGED <<numericalDir, data, names, pairs, pairIdx, stats_map, compareCalls>>
    /\ UNCHANGED <<cmpVars, catVars, benchVars>>

MainNext ==
    \/ LoadData
    \/ CheckAndPair
    \/ ComparePair
    \/ WriteReport

SpecMain == MainInit /\ [][MainNext]_vars

-----------------------------------------------------------------------------
(* The benchmark runs *)

BenchInit ==
    /\ BenchPinned
    /\ CatPinned
    /\ CmpPinned
    /\ MainPinned

Running == status = "running" /\ pc <= Len(Script(entry))

Cur == Script(entry)[pc]

\* The exception goes on as if nothing had raised it.
Fails_swallow(e) ==
    /\ status' = status
    /\ err' = Uncaught(e)

\* The process ends with an uncaught exception: no script has a try, so the
\* exception reaches the interpreter's top level as it was raised.
Fails(e) ==
    /\ status' = "failed"
    /\ err' = Uncaught(e)

\* The statement at pc calls the backend's solve.
SolveStmt ==
    \/ Cur.op \in {"solve", "repeat"}
    \/ Cur.op = "snapshot" /\ numberOfParameters = CalibrationCount

\* The interpreter enters the solve call (or timeit.repeat) of the statement.
EnterSolve ==
    /\ Running /\ SolveStmt
    /\ Cur.fn \notin inProgress
    /\ inProgress' = inProgress \cup {Cur.fn}
    /\ UNCHANGED <<runs, status, entry, pc, numberOfParameters, model_name, model_params,
                   parameterList, res, best_time, err, calls, backendOps, wrote,
                   fsVars, catVars, cmpVars, mainVars>>

\* python bench_<entry>.py <count> <name>: a new process; the files stay.
Invoke ==
    /\ status \in {"idle", "done", "failed"}
    /\ runs < MaxRuns
    /\ runs' = runs + 1
    /\ \E e \in Entries, n \in BenchCounts, name \in BenchNames :
          /\ entry' = e
          /\ numberOfParameters' = n
          /\ model_name' = name
    /\ status' = "running"
    /\ pc' = 1
    /\ model_params' = Pending
    /\ parameterList' = Pending
    /\ res' = << >>
    /\ best_time' = 0
    /\ err' = NoError
    /\ calls' = << >>
    /\ backendOps' = << >>
    /\ wrote' = << >>
    /\ inProgress' = {}
    /\ UNCHANGED <<fsVars, catVars, cmpVars, mainVars>>

\* ModelClass = get_..._class(model_name); model_params = get_model_params(...)
LookupModel ==
    /\ Running /\ Cur.op = "lookup"
    /\ LET t == Translate(Cur.fn, model_name)
           p == get_model_params(model_name) IN
       IF t.exc # "none"
       THEN Fails(t.exc) /\ UNCHANGED <<pc, model_params>>
       ELSE IF p.exc # "none"
       THEN Fails(p.exc) /\ UNCHANGED <<pc, model_params>>
       ELSE /\ model_params' = p
            /\ pc' = pc + 1
            /\ UNCHANGED <<status, err>>
    /\ UNCHANGED <<runs, entry, numberOfParameters, model_name, parameterList, res,
                   best_time, calls, backendOps, wrote, fsVars, inProgress, catVars, cmpVars, mainVars>>

\* A backend set-up call: building the system and the solvers, querying the
\* device, moving the initial state to the device.
BackendOp ==
    /\ Running /\ Cur.op = "backend"
    /\ backendOps' = Append(backendOps, Cur.fn)
    /\ pc' = pc + 1
    /\ UNCHANGED <<runs, status, entry, numberOfParameters, model_name, model_params,
                   parameterList, res, best_time, err, calls, wrote, fsVars, inProgress, catVars, cmpVars, mainVars>>

\* parameterList = get_parameter_list(model_name, numberOfParameters, ...)
MakeSweep ==
    /\ Running /\ Cur.op = "sweep"
    /\ LET r == get_parameter_list(model_name, numberOfParameters) IN
       IF r.exc # "none"
       THEN Fails(r.exc) /\ UNCHANGED <<pc, parameterList>>
       ELSE /\ parameterList' = r
            /\ pc' = pc + 1
            /\ UNCHANGED <<status, err>>
    /\ UNCHANGED <<runs, entry, numberOfParameters, model_name, model_params, res,
                   best_time, calls, backendOps, wrote, fsVars, inProgress, catVars, cmpVars, mainVars>>

\* _ = solve_fixed(): one solve outside timeit; the backend may raise.
UntimedSolve ==
    /\ Running /\ Cur.op = "solve"
    /\ Cur.fn \in inProgress
    /\ inProgress' = AfterReturn(inProgress, Cur.fn)
    /\ calls' = Append(calls, Call(Cur.fn, FALSE, 1))
    /\ \/ pc' = pc + 1 /\ UNCHANGED <<status, err>>
       \/ Fails(BackendError) /\ UNCHANGED pc
    /\ UNCHANGED <<runs, entry, numberOfParameters, model_name, model_params,
                   parameterList, res, best_time, backendOps, wrote, fsVars, catVars,
                   cmpVars, mainVars>>

\* res = timeit.repeat(lambda: solve(), repeat=R, number=1): R solves, each
\* timed; a solve that raises ends the process and res is not assigned.
TimedTrials ==
    /\ Running /\ Cur.op = "repeat"
    /\ Cur.fn \in inProgress
    /\ inProgress' = AfterReturn(inProgress, Cur.fn)
    /\ \/ \E pattern \in LatencyPatterns :
            /\ res' = Durations(pattern, Cur.repeat)
            /\ calls' = Append(calls, Call(Cur.fn, TRUE, Cur.repeat))
            /\ pc' = pc + 1
            /\ UNCHANGED <<status, err>>
       \/ \E k \in FailTrials(Cur.repeat) :
            /\ calls' = Append(calls, Call(Cur.fn, TRUE, k))
            /\ Fails(BackendError)
            /\ UNCHANGED <<pc, res>>
    /\ UNCHANGED <<runs, entry, numberOfParameters, model_name, model_params,
                   parameterList, best_time, backendOps, wrote, fsVars, catVars, cmpVars,
                   mainVars>>

\* best_time = min(res) * 1000
TakeBest ==
    /\ Running /\ Cur.op = "best"
    /\ best_time' = BestTime(res)
    /\ pc' = pc + 1
    /\ UNCHANGED <<runs, status, entry, numberOfParameters, model_name, model_params,
                   parameterList, res, err, calls, backendOps, wrote, fsVars, inProgress, catVars, cmpVars, mainVars>>

\* open(file, "a+").write(f'{numberOfParameters} {best_time}\n')
AppendLog ==
    /\ Running /\ Cur.op = "log"
    /\ fsLogs' = [fsLogs EXCEPT ![Cur.file] = OpenAppendWrite(@, <<numberOfParameters, best_time>>)]
    /\ wrote' = Append(wrote, Cur.file)
    /\ pc' = pc + 1
    /\ UNCHANGED <<runs, status, entry, numberOfParameters, model_name, model_params,
                   parameterList, res, best_time, err, calls, backendOps, fsSnaps, inProgress, catVars, cmpVars, mainVars>>

\* if numberOfParameters == 32768: solve once more and np.savetxt the final states
SaveSnapshot ==
    /\ Running /\ Cur.op = "snapshot"
    /\ \/ /\ numberOfParameters # CalibrationCount
          /\ pc' = pc + 1
          /\ UNCHANGED <<status, err, calls, wrote, fsSnaps, inProgress>>
       \/ /\ numberOfParameters = CalibrationCount
          /\ Cur.fn \in inProgress
          /\ inProgress' = AfterReturn(inProgress, Cur.fn)
          /\ calls' = Append(calls, Call(Cur.fn, FALSE, 1))
          /\ fsSnaps' = [fsSnaps EXCEPT ![Cur.file] =
                            np_savetxt(@, FinalStates(Cur.fn, parameterList.value,
                                                      model_params.value))]
          /\ wrote' = Append(wrote, Cur.file)
          /\ pc' = pc + 1
          /\ UNCHANGED <<status, err>>
       \/ /\ numberOfParameters = CalibrationCount
          /\ Cur.fn \in inProgress
          /\ inProgress' = AfterReturn(inProgress, Cur.fn)
          /\ calls' = Append(calls, Call(Cur.fn, FALSE, 1))
          /\ Fails(BackendError)
          /\ UNCHANGED <<pc, wrote, fsSnaps>>
    /\ UNCHANGED <<runs, entry, numberOfParameters, model_name, model_params,
                   parameterList, res, best_time, backendOps, fsLogs, catVars, cmpVars,
                   mainVars>>

\* The script ran to its end.
ProcessExit ==
    /\ status = "running"
    /\ pc > Len(Script(entry))
    /\ status' = "done"
    /\ UNCHANGED <<runs, entry, pc, numberOfParameters, model_name, model_params,
                   parameterList, res, best_time, err, calls, backendOps, wrote,
                   fsVars, inProgress, catVars, cmpVars, mainVars>>

Next ==
    \/ Invoke
    \/ LookupModel
    \/ BackendOp
    \/ MakeSweep
    \/ EnterSolve
    \/ UntimedSolve
    \/ TimedTrials
    \/ TakeBest
    \/ AppendLog
    \/ SaveSnapshot
    \/ ProcessExit

Spec == BenchInit /\ [][Next]_vars

-----------------------------------------------------------------------------
(* The catalog functions applied to drawn names and counts *)

\* Largest trajectory count drawn for the sweep function.
MaxCount == 6

CatalogNames ==
    { <<"l","o","r","e","n","z">>,
      <<"L","o","r","e","n","z">>,
      <<"L","O","R","E","N","Z">>,
      <<"l","O","r","E","n","Z">>,
      <<"v","a","n","d","e","r","p","o","l">>,
      <<"V","a","n","D","e","r","P","o","l">>,
      <<"V","A","N","D","E","R","P","O","L">>,
      << >>,
      <<"l","o","r","e","n">>,
      <<"l","o","r","e","n","z","z">>,
      <<"L","o","r","e","n","t","z">>,
      <<"r","o","s","s","l","e","r">>,
      <<"v","a","n","_","d","e","r","_","p","o","l">> }

CatInit ==
    /\ cName \in CatalogNames
    /\ cName2 \in CatalogNames
    /\ cCount \in (-1)..MaxCount
    /\ cParams = Pending
    /\ cParams2 = Pending
    /\ cCubie = Pending
    /\ cJax = Pending
    /\ cTorch = Pending
    /\ cSweep = Pending
    /\ RhsPinned
    /\ BenchPinned
    /\ CmpPinned
    /\ MainPinned

LookupParams ==
    /\ cParams.exc = "pending"
    /\ cParams' = get_model_params(cName)
    /\ cParams2' = get_model_params(cName2)
    /\ UNCHANGED <<cName, cName2, cCount, cCubie, cJax, cTorch, cSweep>>
    /\ UNCHANGED rhsVars
    /\ UNCHANGED <<benchVars, cmpVars, mainVars>>

TranslateCubie ==
    /\ cCubie.exc = "pending"
    /\ cCubie' = get_cubie_system(cName)
    /\ UNCHANGED <<cName, cName2, cCount, cParams, cParams2, cJax, cTorch, cSweep>>
    /\ UNCHANGED rhsVars
    /\ UNCHANGED <<benchVars, cmpVars, mainVars>>

TranslateJax ==
    /\ cJax.exc = "pending"
    /\ cJax' = get_jax_model_class(cName)
    /\ UNCHANGED <<cName, cName2, cCount, cParams, cParams2, cCubie, cTorch, cSweep>>
    /\ UNCHANGED rhsVars
    /\ UNCHANGED <<benchVars, cmpVars, mainVars>>

TranslateTorch ==
    /\ cTorch.exc = "pending"
    /\ cTorch' = get_pytorch_model_class(cName)
    /\ UNCHANGED <<cName, cName2, cCount, cParams, cParams2, cCubie, cJax, cSweep>>
    /\ UNCHANGED rhsVars
    /\ UNCHANGED <<benchVars, cmpVars, mainVars>>

\* The sweep is kept with its values spelled out.
GenerateSweep ==
    /\ cSweep.exc = "pending"
    /\ cSweep' = LET r == get_parameter_list(cName, cCount) IN
                 IF r.exc = "none" THEN Ok(ArrayValues(r.value)) ELSE r
    /\ UNCHANGED <<cName, cName2, cCount, cParams, cParams2, cCubie, cJax, cTorch>>
    /\ UNCHANGED rhsVars
    /\ UNCHANGED <<benchVars, cmpVars, mainVars>>

CatNext ==
    \/ LookupParams
    \/ TranslateCubie
    \/ TranslateJax
    \/ TranslateTorch
    \/ GenerateSweep

SpecCatalog == CatInit /\ [][CatNext]_vars

-----------------------------------------------------------------------------
(* The three translations of one model applied to the same state and        *)
(* parameter value.                                                         *)

\* Largest magnitude of a drawn state component or parameter value.
MaxState == 2

RhsValues == {QInt(n) : n \in (-MaxState)..MaxState}

\* States of a model: one value per entry of its initial_conditions.
RhsStates(name) ==
    LET ic == get_model_params(name).value.initial_conditions IN
    [1..Len(ic) -> RhsValues]

RhsInit ==
    /\ rName \in {KeyLorenz, KeyVanDerPol}
    /\ rY \in RhsStates(rName)
    /\ rP \in RhsValues
    /\ rCubie = Pending
    /\ rJax = Pending
    /\ rTorch = Pending
    /\ LookupPinned
    /\ BenchPinned
    /\ CmpPinned
    /\ MainPinned

EvalCubie ==
    /\ rCubie.exc = "pending"
    /\ rCubie' = Ok(cubie_dxdt(get_cubie_system(rName).value, rP, rY))
    /\ UNCHANGED <<rName, rY, rP, rJax, rTorch>>
    /\ UNCHANGED <<cName, cName2, cCount, cParams, cParams2, cCubie, cJax, cTorch, cSweep>>
    /\ UNCHANGED <<benchVars, cmpVars, mainVars>>

EvalJax ==
    /\ rJax.exc = "pending"
    /\ rJax' = Ok(JaxApply(get_jax_model_class(rName).value, rP, rY))
    /\ UNCHANGED <<rName, rY, rP, rCubie, rTorch>>
    /\ UNCHANGED <<cName, cName2, cCount, cParams, cParams2, cCubie, cJax, cTorch, cSweep>>
    /\ UNCHANGED <<benchVars, cmpVars, mainVars>>

EvalTorch ==
    /\ rTorch.exc = "pending"
    /\ rTorch' = Ok(TorchApply(get_pytorch_model_class(rName).value, rP, rY))
    /\ UNCHANGED <<rName, rY, rP, rCubie, rJax>>
    /\ UNCHANGED <<cName, cName2, cCount, cParams, cParams2, cCubie, cJax, cTorch, cSweep>>
    /\ UNCHANGED <<benchVars, cmpVars, mainVars>>

RhsNext ==
    \/ EvalCubie
    \/ EvalJax
    \/ EvalTorch

SpecRhs == RhsInit /\ [][RhsNext]_vars

-----------------------------------------------------------------------------
(* Claims about the catalog and the sweep (SpecCatalog) *)

\* Two characters are the same letter in either case.
SameCharUpToCase(c, d) ==
    \/ c = d
    \/ \E k \in 1..Len(UpperLetters) :
          {c, d} = {UpperLetters[k], LowerLetters[k]}

\* Two names differ at most in letter case.
SameUpToCase(s, t) ==
    /\ Len(s) = Len(t)
    /\ \A i \in 1..Len(s) : SameCharUpToCase(s[i], t[i])

Registered(n) == SameUpToCase(n, KeyLorenz) \/ SameUpToCase(n, KeyVanDerPol)

NonDecreasing(s) == \A i \in 1..(Len(s) - 1) : s[i] <= s[i + 1]

SweepDone == cSweep.exc = "none" /\ cParams.exc = "none"

\* C3 as stated: for every model and every count > 0 (count = 1 included) the
\* sweep has count values, starts at the low end of the range, ends at the
\* high end and never decreases; lorenz with count 4 is [0, 7, 14, 21].
C3_SweepEndsAtHigh ==
    (SweepDone /\ cCount > 0) =>
        /\ Len(cSweep.value) = cCount
        /\ cSweep.value[1] = cParams.value.parameter_range[1]
        /\ cSweep.value[cCount] = cParams.value.parameter_range[2]
        /\ NonDecreasing(cSweep.value)
        /\ (cParams.value.name = "Lorenz" /\ cCount = 4
              => cSweep.value = <<0, 7 * FloatScale, 14 * FloatScale, 21 * FloatScale>>)

\* C3 amended: for every model and every count > 0 the sweep has count values,
\* starts at the low end of the range and never decreases; it ends at the high
\* end when count >= 2, and for count = 1 its only value is the low end;
\* lorenz with count 4 is [0, 7, 14, 21].
C3_SweepShape ==
    (SweepDone /\ cCount > 0) =>
        /\ Len(cSweep.value) = cCount
        /\ cSweep.value[1] = cParams.value.parameter_range[1]
        /\ (cCount >= 2 => cSweep.value[cCount] = cParams.value.parameter_range[2])
        /\ (cCount = 1 => cSweep.value = <<cParams.value.parameter_range[1]>>)
        /\ NonDecreasing(cSweep.value)
        /\ (cParams.value.name = "Lorenz" /\ cCount = 4
              => cSweep.value = <<0, 7 * FloatScale, 14 * FloatScale, 21 * FloatScale>>)

\* C3 witness: the lorenz sweep of 4 values has been generated.
C3_Witness ==
    /\ SweepDone
    /\ cParams.value.name = "Lorenz"
    /\ cCount = 4
    /\ cSweep.value = <<0, 7000, 14000, 21000>>

\* C5: two names that differ only in letter case get the same definition from
\* get_model_params; a name is rejected exactly when it is not lorenz or
\* vanderpol in some casing; the cubie, JAX and PyTorch translators accept and
\* reject the same names as get_model_params.
C5_LookupCaseInsensitive ==
    /\ (cParams.exc # "pending" /\ SameUpToCase(cName, cName2)) => cParams = cParams2
    /\ cParams.exc # "pending" =>
          /\ (cParams.exc = "none") = Registered(cName)
          /\ (cParams2.exc = "none") = Registered(cName2)
          /\ (cParams.exc # "none" => cParams.exc = "ValueError: Unknown model")
          /\ (cParams.exc = "none" /\ SameUpToCase(cName, KeyLorenz)
                => cParams.value.name = "Lorenz")
          /\ (cParams.exc = "none" /\ SameUpToCase(cName, KeyVanDerPol)
                => cParams.value.name = "VanDerPol")
    /\ (cParams.exc # "pending" /\ cCubie.exc # "pending")
          => ((cCubie.exc = "none") = (cParams.exc = "none"))
    /\ (cParams.exc # "pending" /\ cJax.exc # "pending")
          => ((cJax.exc = "none") = (cParams.exc = "none"))
    /\ (cParams.exc # "pending" /\ cTorch.exc # "pending")
          => ((cTorch.exc = "none") = (cParams.exc = "none"))

\* C5 witness: two different casings of lorenz were both looked up and all
\* three translators accepted the name.
C5_Witness ==
    /\ cName # cName2
    /\ SameUpToCase(cName, cName2)
    /\ cName # KeyLorenz
    /\ cParams.exc = "none"
    /\ cParams2.exc = "none"
    /\ cParams.value.name = "Lorenz"
    /\ cCubie.exc = "none"
    /\ cJax.exc = "none"
    /\ cTorch.exc = "none"

-----------------------------------------------------------------------------
(* Claims about the benchmark entry points (Spec) *)

\* The statement the process executed last.
Prev == Script(entry)[pc - 1]

\* The process has just appended a line to a timing log.
JustLogged == status = "running" /\ pc > 1 /\ Prev.op = "log"

LastLine(file) == fsLogs[file][Len(fsLogs[file])]

\* The last timeit.repeat of the history.
LastTimed ==
    LET idx == {i \in 1..Len(calls) : calls[i].timed} IN
    calls[CHOOSE i \in idx : \A j \in idx : j <= i]

\* C1: the elapsed value a cell writes to its timing log is the minimum of the
\* durations of all R timed trials of the cell (R = 100 for cubie and JAX, 10
\* for PyTorch), in milliseconds: no trial is shorter and one trial is as long.
C1_ElapsedIsMinimum ==
    JustLogged =>
        LET line == LastLine(Prev.file)
            R == IF entry = "pytorch" THEN 10 ELSE 100 IN
        /\ line[1] = numberOfParameters
        /\ Len(res) = R
        /\ LastTimed.n = R
        /\ \A i \in 1..R : line[2] <= res[i] * 1000
        /\ \E i \in 1..R : line[2] = res[i] * 1000

\* C1 witness: cubie's adaptive cell logged 1 ms after trials of 5, 1, 9, 2, ...
\* ms, whose first and last trial are not the shortest.
C1_Witness ==
    /\ JustLogged
    /\ entry = "cubie"
    /\ Prev.file = "Cubie_times_adaptive.txt"
    /\ res[1] = 5000 /\ res[2] = 1000 /\ res[Len(res)] = 2000
    /\ LastLine(Prev.file) = <<numberOfParameters, 1000000>>

\* C2 as stated: in every entry point run with a positive count, every series
\* of timed trials is preceded by exactly one untimed solve of the same
\* function, the warm-up.
C2_OneWarmUpBeforeTrials ==
    \A i \in 1..Len(calls) :
        (calls[i].timed /\ numberOfParameters > 0) =>
            /\ i > 1
            /\ ~calls[i - 1].timed
            /\ calls[i - 1].fn = calls[i].fn
            /\ calls[i - 1].n = 1
            /\ (i > 2 => ~(~calls[i - 2].timed /\ calls[i - 2].fn = calls[i].fn))

\* C4 as stated: with a count that is 0 or negative the sweep generation fails,
\* so no sweep exists, no solve is started and no file is written.
C4_InvalidCountFails ==
    (status # "idle" /\ numberOfParameters <= 0) =>
        /\ parameterList.exc # "none"
        /\ calls = << >>
        /\ wrote = << >>

\* C6 as stated: a process given a positive count that failed on an unknown
\* model name has started no backend/device operation and no solve, and has
\* written no file.
C6_UnknownModelFailsFirst ==
    (status = "failed" /\ err.exc = "ValueError: Unknown model" /\ numberOfParameters > 0) =>
        /\ backendOps = << >>
        /\ calls = << >>
        /\ wrote = << >>

-----------------------------------------------------------------------------
(* Claims about compare_arrays *)

\* Two floats are the same value (NaN counted the same as NaN).
SameFloat(x, y) == x.k = y.k /\ (x.k = "fin" => x.num * y.den = y.num * x.den)

IsZero(x) == x.k = "fin" /\ x.num = 0

\* compare_arrays returned statistics.
HasStats(r) == r.exc = "none" /\ ~r.value.none

AllFinite(a) == \A i \in 1..Len(a.flat) : IsFinite(a.flat[i])

\* C7: for equal-shape arrays, is_close is true exactly when every element
\* satisfies |a-b| <= atol + rtol*|b|; equivalently is_close holds iff
\* num_close = total_elements, and percent_close = 100*num_close/total_elements.
C7_IsCloseIffAllElementsClose ==
    HasStats(stats) =>
        LET st == stats.value IN
        /\ st.is_close <=>
              \A i \in 1..ArraySize(inA) :
                  ElementClose(inA.flat[i], inB.flat[i], inRtol, inAtol)
        /\ st.is_close <=> (st.num_close = st.total_elements)
        /\ SameFloat(st.percent_close, Rat(100 * st.num_close, st.total_elements))

\* C9 as stated: every array compared with itself, under any rtol, atol >= 0,
\* gives is_close, num_close = total_elements and zero maximum and mean
\* absolute difference.
C9_SelfComparisonIsClose ==
    statsSelf.exc # "pending" =>
        /\ HasStats(statsSelf)
        /\ statsSelf.value.is_close
        /\ statsSelf.value.num_close = statsSelf.value.total_elements
        /\ IsZero(statsSelf.value.abs_max)
        /\ IsZero(statsSelf.value.abs_mean)

\* C9 amended: a non-empty array of finite values compared with itself, under
\* any rtol, atol >= 0, gives is_close, num_close = total_elements and zero
\* maximum and mean absolute difference.
C9_FiniteSelfComparisonIsClose ==
    (statsSelf.exc # "pending" /\ ArraySize(inA) > 0 /\ AllFinite(inA)) =>
        /\ HasStats(statsSelf)
        /\ statsSelf.value.is_close
        /\ statsSelf.value.num_close = statsSelf.value.total_elements
        /\ IsZero(statsSelf.value.abs_max)
        /\ IsZero(statsSelf.value.abs_mean)

\* C9 witness: an array of two different finite values was compared with
\* itself under zero tolerances and found close.
C9_Witness ==
    /\ HasStats(statsSelf)
    /\ ArraySize(inA) = 2
    /\ AllFinite(inA)
    /\ inA.flat[1] # inA.flat[2]
    /\ inRtol = 0
    /\ inAtol = 0
    /\ statsSelf.value.is_close
    /\ statsSelf.value.num_close = 2

\* C10 as stated: compare_arrays(a, b) and compare_arrays(b, a) return the
\* same num_close and percent_close, the same abs_max and the same abs_mean
\* (stated here of arrays of finite values).
C10_SwapSymmetric ==
    (HasStats(stats) /\ HasStats(statsSwap) /\ AllFinite(inA) /\ AllFinite(inB)) =>
        /\ stats.value.num_close = statsSwap.value.num_close
        /\ SameFloat(stats.value.percent_close, statsSwap.value.percent_close)
        /\ SameFloat(stats.value.abs_max, statsSwap.value.abs_max)
        /\ SameFloat(stats.value.abs_mean, statsSwap.value.abs_mean)

\* C10 amended: compare_arrays(a, b) and compare_arrays(b, a) return the same
\* total_elements, the same abs_max and the same abs_mean; num_close and
\* percent_close may differ, the tolerance being taken from the second array.
C10_AbsDiffSwapSymmetric ==
    (HasStats(stats) /\ HasStats(statsSwap)) =>
        /\ stats.value.total_elements = statsSwap.value.total_elements
        /\ SameFloat(stats.value.abs_max, statsSwap.value.abs_max)
        /\ SameFloat(stats.value.abs_mean, statsSwap.value.abs_mean)

\* C10 witness: two arrays with a positive finite difference were compared in
\* both orders, and the counts of close elements differ.
C10_Witness ==
    /\ HasStats(stats)
    /\ HasStats(statsSwap)
    /\ stats.value.abs_max.k = "fin"
    /\ stats.value.abs_max.num > 0
    /\ stats.value.abs_mean.num > 0
    /\ stats.value.num_close # statsSwap.value.num_close

-----------------------------------------------------------------------------
(* Claims about main() of compare_numerical_results.py *)

\* The pairs the loop has been through.
Compared == {pairs[k] : k \in 1..(pairIdx - 1)}

ShapesDiffer(n1, n2) == data[n1].shape # data[n2].shape

\* This run wrote the report.
ReportWritten ==
    /\ mainPc = "exited"
    /\ exit_code = 0
    /\ md_file.exists
    /\ md_file.names = names

\* C8: a pair of snapshots of different shapes gets no statistics, the run
\* goes on to the other pairs, which get their statistics, and both report
\* cells of the mismatched pair read "N/A".
C8_ShapeMismatchScopedToPair ==
    /\ \A pr \in Compared :
          /\ pr \in DOMAIN stats_map
          /\ ShapesDiffer(pr[1], pr[2]) <=> stats_map[pr].none
    /\ mainPc = "crashed" => ~ShapesDiffer(pairs[pairIdx][1], pairs[pairIdx][2])
    /\ (mainPc = "exited" /\ exit_code = 0) =>
          Compared = {pairs[k] : k \in 1..Len(pairs)}
    /\ ReportWritten =>
          \A i, j \in 1..Len(names) :
              i # j =>
                 LET cell == md_file.table[i][j]
                     mirror == md_file.table[j][i] IN
                 IF ShapesDiffer(names[i], names[j])
                 THEN cell.text = "N/A" /\ mirror.text = "N/A"
                 ELSE cell.text = "stats" /\ mirror = cell

\* C8 witness: a run over three snapshots wrote a report in which one pair
\* has mismatched shapes and reads "N/A" both ways and another pair has its
\* statistics.
C8_Witness ==
    /\ ReportWritten
    /\ Len(names) = 3
    /\ \E i, j \in 1..3 :
          /\ i # j
          /\ ShapesDiffer(names[i], names[j])
          /\ md_file.table[i][j].text = "N/A"
          /\ md_file.table[j][i].text = "N/A"
    /\ \E i, j \in 1..3 :
          /\ i < j
          /\ ~ShapesDiffer(names[i], names[j])
          /\ md_file.table[j][i].text = "stats"
          /\ md_file.table[j][i].mean.mant > 0

\* The two names of a compare_arrays call, as an unordered pair.
CallPair(k) == {compareCalls[k][1], compareCalls[k][2]}

\* The run went through to its end.
Completed == mainPc = "exited" /\ exit_code = 0

PairStats(a, b) ==
    IF <<a, b>> \in DOMAIN stats_map THEN stats_map[<<a, b>>] ELSE stats_map[<<b, a>>]

\* C12: the report matrix has one row and one column per loaded snapshot in
\* the same order, every diagonal cell is the marker "-", and for i # j the
\* cells (i, j) and (j, i) have the same text, taken from the single
\* comparison of that pair.
C12_ReportMatrixSymmetric ==
    ReportWritten =>
        LET N == Cardinality(DOMAIN data)
            t == md_file.table IN
        /\ Len(md_file.header) = N
        /\ {md_file.header[i] : i \in 1..N} = DOMAIN data
        /\ md_file.labels = md_file.header
        /\ Len(t) = N
        /\ \A i \in 1..N :
              /\ Len(t[i]) = N
              /\ t[i][i].text = "-"
              /\ \A j \in 1..N :
                    i # j =>
                       LET a == md_file.header[i]
                           b == md_file.header[j] IN
                       /\ t[i][j] = t[j][i]
                       /\ t[i][j].text # "-"
                       /\ (<<a, b>> \in DOMAIN stats_map) # (<<b, a>> \in DOMAIN stats_map)
                       /\ IF PairStats(a, b).none
                          THEN t[i][j].text = "N/A"
                          ELSE /\ t[i][j].text = "stats"
                               /\ t[i][j].max = FormatE2(PairStats(a, b).abs_max)
                               /\ t[i][j].mean = FormatE2(PairStats(a, b).abs_mean)
                               /\ t[i][j].pct = FormatF1(PairStats(a, b).percent_close)

\* C12 witness: a report over three snapshots has a pair whose two cells show
\* a positive maximum difference and less than 100.0 percent close.
C12_Witness ==
    /\ ReportWritten
    /\ Len(md_file.header) = 3
    /\ \E i, j \in 1..3 :
          /\ i < j
          /\ md_file.table[i][j].text = "stats"
          /\ md_file.table[j][i].max.mant > 0
          /\ md_file.table[j][i].pct < 1000

\* C13: with fewer than two snapshot files the run makes no comparison, leaves
\* the report file as it was (absent or with its old content), and exits
\* with a non-zero status.
C13_TooFewSnapshotsExitNonZero ==
    [][Cardinality(Present(numericalDir)) < 2 =>
          /\ md_file' = md_file
          /\ compareCalls' = << >>
          /\ mainPc' # "comparing"
          /\ (mainPc' = "exited" => exit_code' # 0)]_vars

\* C13 witness: a run that found one snapshot file exited with status 1 and
\* the old report is still there.
C13_Witness ==
    /\ Cardinality(Present(numericalDir)) = 1
    /\ mainPc = "exited"
    /\ exit_code = 1
    /\ md_file = OldReport
    /\ compareCalls = << >>

-----------------------------------------------------------------------------
(* Claims about the files and the failures of the benchmark runs (Spec) *)

\* The files this invocation has written.
Wrote == {wrote[k] : k \in 1..Len(wrote)}

\* The timing log of a backend and stepping mode.
OwnLog(e, m) ==
    IF e = "cubie"
    THEN (IF m = "fixed" THEN "Cubie_times_unadaptive.txt" ELSE "Cubie_times_adaptive.txt")
    ELSE IF e = "jax"
    THEN (IF m = "fixed" THEN "Jax_times_unadaptive.txt" ELSE "Jax_times_adaptive.txt")
    ELSE "Torch_times_unadaptive.txt"

\* The statement at pc appends the line of a measured cell.
AtLog == Running /\ Cur.op = "log"

\* C14: a measured cell appends exactly one line <<count, elapsed_ms>> at the
\* end of the log of its own backend and mode, and no step changes, reorders
\* or removes a line a log already has; so a log holds one line per completed
\* cell in completion order.
C14_LogAppendOnly ==
    [][/\ \A f \in LogFiles :
             \/ fsLogs'[f] = fsLogs[f]
             \/ /\ AtLog
                /\ f = Cur.file
                /\ f = OwnLog(entry, Mode(LastTimed.fn))
                /\ fsLogs'[f] = Append(fsLogs[f], <<numberOfParameters, best_time>>)
                /\ \A g \in LogFiles \ {f} : fsLogs'[g] = fsLogs[g]
       /\ (AtLog /\ pc' = pc + 1) =>
             Len(fsLogs'[Cur.file]) = Len(fsLogs[Cur.file]) + 1]_vars

\* C14 witness: two invocations, with counts 4 and then 32768, left exactly
\* two lines in one log, in that order.
C14_Witness ==
    \E f \in LogFiles :
        /\ Len(fsLogs[f]) = 2
        /\ fsLogs[f][1][1] = 4
        /\ fsLogs[f][2][1] = CalibrationCount
        /\ fsLogs[f][1][2] > 0

\* C15: a snapshot file is written only when the count is 32768; with any
\* other count no snapshot file is created or changed; and a snapshot file
\* always holds the final states of one run, a rerun replacing them.
C15_SnapshotOnlyAtCalibrationCount ==
    [][\A f \in SnapFiles :
          /\ fsSnaps'[f] # fsSnaps[f] =>
                /\ numberOfParameters = CalibrationCount
                /\ Running /\ Cur.op = "snapshot" /\ Cur.file = f
                /\ fsSnaps'[f] =
                      [exists |-> TRUE,
                       blocks |-> <<FinalStates(Cur.fn, parameterList.value,
                                                model_params.value)>>]
          /\ fsSnaps'[f].exists =>
                /\ Len(fsSnaps'[f].blocks) = 1
                /\ ArrayLen(fsSnaps'[f].blocks[1].rows) = CalibrationCount]_vars

\* C15 witness: the second of two cubie invocations with count 32768 has
\* written cubie_unadaptive.csv again, and the file holds one array.
C15_Witness ==
    /\ runs = 2
    /\ entry = "cubie"
    /\ "cubie_unadaptive.csv" \in Wrote
    /\ Len(fsLogs["Cubie_times_adaptive.txt"]) = 2
    /\ fsLogs["Cubie_times_adaptive.txt"][1][1] = CalibrationCount
    /\ fsLogs["Cubie_times_adaptive.txt"][2][1] = CalibrationCount
    /\ Len(fsSnaps["cubie_unadaptive.csv"].blocks) = 1

\* C16 as stated: an entry point that ran to its end with the calibration
\* count has written a snapshot file of its own for every cell it measured
\* and logged.
C16_EveryCellHasSnapshot ==
    (status = "done" /\ numberOfParameters = CalibrationCount) =>
        Cardinality(Wrote \cap SnapFiles) = Cardinality(Wrote \cap LogFiles)

\* C17 as stated: a failure of the backend during the warm-up or a timed
\* trial (of a run with a positive count) reaches the operator as a
\* BackendExecutionError naming the backend, the mode and the count and
\* carrying the cause.
C17_BackendErrorWrapped ==
    (status = "failed" /\ pc <= Len(Script(entry)) /\ Cur.op \in {"solve", "repeat"}
       /\ numberOfParameters > 0) =>
        /\ err.exc = "BackendExecutionError"
        /\ err.backend = entry
        /\ err.mode = Mode(Cur.fn)
        /\ err.count = numberOfParameters
        /\ err.cause = BackendError

\* C18: when a solve of the warm-up or of the timed trials fails, the process
\* ends there: no solve follows in the invocation, the failed cell and the
\* cells after it write no log line and no snapshot, and the logs and
\* snapshots of earlier cells stay as they are.
C18_FailedCellStops ==
    [][/\ (status = "running" /\ pc <= Len(Script(entry))
             /\ Cur.op \in {"solve", "repeat"} /\ err'.exc # "none") =>
             /\ status' = "failed"
             /\ fsLogs' = fsLogs
             /\ fsSnaps' = fsSnaps
             /\ \A k \in pc..Len(Script(entry)) :
                   Script(entry)[k].file \notin {wrote'[i] : i \in 1..Len(wrote')}
       /\ (err.exc # "none" /\ runs' = runs) =>
             /\ calls' = calls
             /\ inProgress' = inProgress
             /\ fsLogs' = fsLogs
             /\ fsSnaps' = fsSnaps]_vars

\* C18 witness: cubie's adaptive trials failed at the calibration count; the
\* fixed cell's log line and snapshot are there and the adaptive log is empty.
C18_Witness ==
    /\ status = "failed"
    /\ entry = "cubie"
    /\ runs = 1
    /\ Cur.op = "repeat"
    /\ Cur.fn = "solve_adaptive"
    /\ err.exc = BackendError
    /\ Len(fsLogs["Cubie_times_unadaptive.txt"]) = 1
    /\ fsSnaps["cubie_unadaptive.csv"].exists
    /\ fsLogs["Cubie_times_adaptive.txt"] = << >>
    /\ ~fsSnaps["cubie_adaptive.csv"].exists

\* The adaptive cell has started a solve.
AdaptiveStarted ==
    \/ \E fn \in inProgress : Mode(fn) = "adaptive"
    \/ \E i \in 1..Len(calls) : Mode(calls[i].fn) = "adaptive"

\* The snapshot file of an entry point's fixed-step cell.
FixedSnapshot(e) ==
    IF e = "cubie" THEN "cubie_unadaptive.csv"
    ELSE IF e = "jax" THEN "jax.csv"
    ELSE "pytorch.csv"

\* C19: the cells of an invocation run one after another: when the adaptive
\* cell starts its first solve, the timed trials, the log line and (at the
\* calibration count) the snapshot of the fixed-step cell are done, no
\* fixed-step solve follows, and never are two solves in progress.
C19_CellsRunSequentially ==
    /\ Cardinality(inProgress) <= 1
    /\ AdaptiveStarted =>
          /\ \A fn \in inProgress : Mode(fn) = "adaptive"
          /\ \E i \in 1..Len(calls) : calls[i].timed /\ Mode(calls[i].fn) = "fixed"
          /\ OwnLog(entry, "fixed") \in Wrote
          /\ numberOfParameters = CalibrationCount => FixedSnapshot(entry) \in Wrote
          /\ \A i, j \in 1..Len(calls) :
                (Mode(calls[i].fn) = "adaptive" /\ Mode(calls[j].fn) = "fixed") => j < i

\* C19 witness: JAX's first adaptive solve is in progress at the calibration
\* count, after the fixed cell's log line and snapshot.
C19_Witness ==
    /\ entry = "jax"
    /\ numberOfParameters = CalibrationCount
    /\ inProgress = {"main_adaptive"}
    /\ "jax.csv" \in Wrote
    /\ Len(calls) = 2

-----------------------------------------------------------------------------
(* Claims about the worst-mismatch listing of compare_arrays *)

\* The flat index, counted from 1, of a listed position.
FlatIndex(pos, shape) ==
    IF Len(shape) = 2 THEN pos[1] * shape[2] + pos[2] + 1 ELSE pos[1] + 1

\* The absolute difference of the two arrays at a listed position.
DiffAt(pos) ==
    ElemDiff(inA.flat[FlatIndex(pos, inA.shape)], inB.flat[FlatIndex(pos, inA.shape)])

\* C20: compare_arrays lists worst mismatches exactly when is_close is false;
\* it then lists min(5, number of elements) distinct positions in
\* non-increasing order of absolute difference (a nan difference counting as
\* the largest, as in np.max), the first at the maximum absolute difference,
\* each with its row and column (its index in a one-dimensional array) and
\* both values.
C20_WorstMismatchesListed ==
    stats.exc # "pending" =>
        /\ (listing # << >>) <=> (HasStats(stats) /\ ~stats.value.is_close)
        /\ listing # << >> =>
              LET n == ArraySize(inA)
                  k == Len(listing) IN
              /\ k = (IF n < 5 THEN n ELSE 5)
              /\ \A i \in 1..k :
                    /\ Len(listing[i].pos) = Len(inA.shape)
                    /\ \A d \in 1..Len(inA.shape) :
                          listing[i].pos[d] \in 0..(inA.shape[d] - 1)
                    /\ listing[i].v1 = FormatE6(inA.flat[FlatIndex(listing[i].pos, inA.shape)])
                    /\ listing[i].v2 = FormatE6(inB.flat[FlatIndex(listing[i].pos, inA.shape)])
                    /\ \A j \in 1..k : i # j => listing[i].pos # listing[j].pos
              /\ \A i \in 1..(k - 1) :
                    SortLeq(DiffAt(listing[i + 1].pos), DiffAt(listing[i].pos))
              /\ SameFloat(DiffAt(listing[1].pos), stats.value.abs_max)

\* C20 witness: the two 4 x 3 snapshots that differ by 1.0 at [2, 1] give 11
\* of 12 close, and five lines of which the first is [2, 1] with 1.0 and 0.0.
C20_Witness ==
    /\ inA = SnapshotA
    /\ inB = SnapshotB
    /\ inRtol = DefaultRtol
    /\ inAtol = DefaultAtol
    /\ HasStats(stats)
    /\ ~stats.value.is_close
    /\ stats.value.num_close = 11
    /\ stats.value.total_elements = 12
    /\ Len(listing) = 5
    /\ listing[1].pos = <<2, 1>>
    /\ listing[1].v1 = [text |-> "fin", mant |-> 1000000, exp |-> 0]
    /\ listing[1].v2.mant = 0

-----------------------------------------------------------------------------
\* C21: for each registered model, the derivative vectors the cubie system
\* string, the JAX class and the PyTorch class give for the same state and
\* parameter value are equal, component by component in the order of the
\* shared definition's state variables, and have its dimension.
C21_SameRightHandSide ==
    /\ (rCubie.exc = "none" /\ rJax.exc = "none") => rCubie.value = rJax.value
    /\ (rCubie.exc = "none" /\ rTorch.exc = "none") => rCubie.value = rTorch.value
    /\ (rJax.exc = "none" /\ rTorch.exc = "none") => rJax.value = rTorch.value
    /\ \A r \in {rCubie, rJax, rTorch} :
          r.exc = "none" =>
              Len(r.value) = get_model_params(rName).value.dimension

\* C21: the three Lorenz right-hand sides evaluated where x, z and rho are
\* all non-zero, so the two spellings of the second component differ in form.
C21_Witness ==
    /\ rName = KeyLorenz
    /\ rCubie.exc = "none" /\ rJax.exc = "none" /\ rTorch.exc = "none"
    /\ rY[1].num # 0 /\ rY[3].num # 0 /\ rP.num # 0
    /\ rJax.value[2] # QSub(QInt(0), rY[2])

-----------------------------------------------------------------------------
\* The state variables of a model definition, in its order.
StateNames(params) ==
    [i \in 1..Len(params.initial_conditions) |-> params.initial_conditions[i][1]]

\* The array a snapshot file holds.
Snapshot(f) == fsSnaps[f].blocks[1]

\* C22: in every snapshot an entry point has written in its invocation, the
\* rows run over the trajectories and the columns over the state variables
\* (no transposition is left out or added); the rows are the
\* sweep of the model definition, value by value in its order, the columns
\* are the definition's state variables in its order, and so the shape is
\* (count, dimension).
C22_SnapshotRowsFollowSweep ==
    \A f \in SnapFiles :
        f \in Wrote =>
            LET def == get_model_params(model_name).value
                sweep == get_parameter_list(model_name, numberOfParameters).value IN
            /\ Snapshot(f).axes = <<"run", "state">>
            /\ ArrayLen(Snapshot(f).rows) = numberOfParameters
            /\ \A i \in {0, 1, numberOfParameters \div 2, numberOfParameters - 1} :
                  ArrayAt(Snapshot(f).rows, i) = ArrayAt(sweep, i)
            /\ Snapshot(f).rows = parameterList.value
            /\ Snapshot(f).columns = StateNames(def)
            /\ Snapshot(f).cols = def.dimension

\* C22 witness: the cubie entry point has just written the snapshot of its
\* fixed-step cell for the Lorenz model, 32768 rows of 3 columns.
C22_Witness ==
    /\ entry = "cubie"
    /\ "cubie_unadaptive.csv" \in Wrote
    /\ ArrayLen(Snapshot("cubie_unadaptive.csv").rows) = CalibrationCount
    /\ Snapshot("cubie_unadaptive.csv").cols = 3

-----------------------------------------------------------------------------
\* Two statistics are the same value.
SameValue(x, y) ==
    /\ x.k = y.k
    /\ x.k \in {"fin", "big", "sqrt"} => Q(x.num, x.den) = Q(y.num, y.den)
    /\ x.k = "big" => Q(x.low.num, x.low.den) = Q(y.low.num, y.low.den)

\* |(a - b) / (a + eps)| for two finite elements, a in the denominator: the
\* quotient |a - b| / |a| in lowest terms, |b| / eps when a is zero and b is
\* not, and zero when both are zero.
Proxy(a, b) ==
    LET n == Abs(a.num - b.num)
        m == Abs(a.num)
        g == Gcd(n, m) IN
    IF n = 0 THEN Fin(0)
    ELSE IF m = 0 THEN Big(n, 1)
    ELSE Rat(n \div g, m \div g)

\* m is the largest of the proxies of a against b: one element attains it and
\* none exceeds it (eps being smaller than every non-zero element).
IsLargestProxy(m, a, b) ==
    LET I == 1..Len(a.flat)
        D(i) == Abs(a.flat[i].num - b.flat[i].num)
        A(i) == Abs(a.flat[i].num)
        Z == {i \in I : A(i) = 0 /\ D(i) # 0} IN
    IF Z # {}
    THEN /\ m.k = "big"
         /\ \E i \in Z : m.num = D(i) * m.den
         /\ \A j \in Z : D(j) * m.den <= m.num
    ELSE /\ m.k = "fin"
         /\ \E i \in I : m.num * A(i) = D(i) * m.den
         /\ \A j \in I : D(j) * m.den <= m.num * A(j)

\* The relative statistics of a record are those of the proxy with the first
\* array a in the denominator: the largest proxy and the mean of the proxies.
RelativeStatsOf(st, a, b) ==
    /\ IsLargestProxy(st.rel_min, a, b)
    /\ SameValue(st.rel_std,
                 np_mean([i \in 1..Len(a.flat) |-> Proxy(a.flat[i], b.flat[i])]))

\* C23: the relative statistics compare_arrays(a, b) returns are taken over
\* |(a - b) / (a + eps)| element by element, the first argument in the
\* denominator, whichever order the arrays are given in; and the absolute
\* statistics of compare_arrays(a, b) and compare_arrays(b, a) are the same.
C23_RelativeProxyFirstArgument ==
    /\ (HasStats(stats) /\ AllFinite(inA) /\ AllFinite(inB)) =>
            RelativeStatsOf(stats.value, inA, inB)
    /\ (HasStats(statsSwap) /\ AllFinite(inA) /\ AllFinite(inB)) =>
            RelativeStatsOf(statsSwap.value, inB, inA)
    /\ (HasStats(stats) /\ HasStats(statsSwap)) =>
            /\ SameValue(stats.value.abs_max, statsSwap.value.abs_max)
            /\ SameValue(stats.value.abs_mean, statsSwap.value.abs_mean)

\* C23 witness: two finite arrays compared in both orders, whose absolute
\* statistics agree and are positive while both relative statistics differ.
C23_Witness ==
    /\ HasStats(stats) /\ HasStats(statsSwap)
    /\ AllFinite(inA) /\ AllFinite(inB)
    /\ stats.value.abs_max.num > 0
    /\ SameValue(stats.value.abs_max, statsSwap.value.abs_max)
    /\ stats.value.rel_min.k = "fin" /\ statsSwap.value.rel_min.k = "fin"
    /\ ~SameValue(stats.value.rel_min, statsSwap.value.rel_min)
    /\ ~SameValue(stats.value.rel_std, statsSwap.value.rel_std)

-----------------------------------------------------------------------------
\* The relative differences of a against b are all ordinary finite values.
OrdinaryProxies(a, b) ==
    /\ AllFinite(a) /\ AllFinite(b)
    /\ \A i \in 1..Len(a.flat) : Proxy(a.flat[i], b.flat[i]).k = "fin"

\* m is the standard deviation whose square is v: the non-negative root.
IsRootOf(m, v) ==
    /\ m.k = "fin" /\ v.k = "sqrt"
    /\ LET a == Q(m.num, m.den)
           b == Q(v.num, v.den) IN
       /\ a.num >= 0
       /\ a.num * a.num = b.num
       /\ a.den * a.den = b.den

\* C24 as stated: in the record compare_arrays returns, abs_max and abs_mean
\* are the maximum and the mean of the absolute differences and rel_min and
\* rel_std are the minimum and the standard deviation of the relative
\* differences, each equal to the value printed under the label of that name.
C24_FieldsHoldNamedStatistics ==
    (HasStats(stats) /\ OrdinaryProxies(inA, inB)) =>
        LET st == stats.value
            I == 1..Len(inA.flat)
            D(i) == Abs(inA.flat[i].num - inB.flat[i].num) IN
        /\ \E i \in I : st.abs_max = Fin(D(i))
        /\ \A j \in I : D(j) <= st.abs_max.num
        /\ SameValue(st.abs_max, printed(inA, inB, "abs", "Max"))
        /\ SameValue(st.abs_mean, printed(inA, inB, "abs", "Mean"))
        /\ \A j \in I : FLeq(st.rel_min, Proxy(inA.flat[j], inB.flat[j]))
        /\ SameValue(st.rel_min, printed(inA, inB, "rel", "Min"))
        /\ IsRootOf(st.rel_std, printed(inA, inB, "rel", "Std"))

====
